---- MODULE Spec2Model ----
(***************************************************************************)
(* A model of the three analytical components of the repository:          *)
(*   - the bonding-curve simulator   (src/simulate/src/main.rs),           *)
(*   - the attack detector           (src/index_and_detect/src/detect.rs), *)
(*   - the instruction decoder       (src/parse_and_detect/src/parser/     *)
(*                                    pumpfun.rs).                         *)
(* TLC's integers are 32 bits wide, the program's are u64, i64, u128 and   *)
(* i128.  Every program integer is therefore a multi-precision natural: a  *)
(* sequence of limbs in base 10^4, least significant limb first, without   *)
(* leading zero limbs (so that equal numbers are equal sequences); a       *)
(* signed integer is a record [neg, mag].                                  *)
(***************************************************************************)
EXTENDS Integers, Sequences, FiniteSets, TLC

VARIABLES
    \* ---- simulator (src/simulate/src/main.rs) ----
    amm,             \* PumpAmmState: the four reserves
    overflow_checks, \* the build: TRUE panics on integer overflow, FALSE wraps
    sim_panicked,    \* the process has aborted with an overflow panic
    calls,           \* the calls made so far, oldest first
    \* ---- detector (src/index_and_detect/src/detect.rs) ----
    trades,          \* the batch handed to detect_wide_attacks
    cfg,             \* the DetectorConfig handed to it
    det_pc,          \* "start", "scan" (in the victim loop), "done", "panicked"
    cursor,          \* the victim loop's position in by_slot, flattened
    summary,         \* the DetectionSummary under construction
    det_overflow,    \* an i64 operation of the detector left the type's range
    \* ---- decoder (src/parse_and_detect/src/parser/pumpfun.rs) ----
    raw,             \* what bs58::decode made of the instruction data
    sent,            \* how the instruction data was put together
    dec_pc,          \* "start", "or_else" (the first window gave None), "done"
    tried,           \* the offsets of the windows try_decode was given, in order
    decoded,         \* the Option<DecodedInstruction> returned
    \* ---- parser (src/parse_and_detect/src/parser/pumpfun.rs) ----
    transaction,     \* the transaction handed to parse_transaction
    par_pc,          \* "start", "top", "inner", "deltas", "done", "panicked"
    at,              \* the scan's position: <<0, i>> top-level, <<g, i>> inner
    scanned,         \* the positions given to decode_pump_instruction, in order
    scan_hit,        \* the Option<DecodedInstruction> of the scan
    parsed           \* the Option<ParsedTransaction> returned

sim_vars == <<amm, sim_panicked, calls>>
det_vars == <<trades, cfg, det_pc, cursor, summary, det_overflow>>
dec_vars == <<raw, sent, dec_pc, tried, decoded>>
par_vars == <<transaction, par_pc, at, scanned, scan_hit, parsed>>
vars == <<overflow_checks, sim_vars, det_vars, dec_vars, par_vars>>

----------------------------------------------------------------------------
(* Multi-precision naturals.                                               *)

Base == 10^4

Zero == <<>>

\* The number of limbs of s without its leading zero limbs.
Top(s) ==
    IF \A i \in 1..Len(s) : s[i] = 0 THEN 0
    ELSE CHOOSE i \in 1..Len(s) : s[i] # 0 /\ \A j \in (i + 1)..Len(s) : s[j] = 0

Norm(s) == SubSeq(s, 1, Top(s))

\* A number below 2^31 as limbs.
N(n) == Norm(<<n % Base, (n \div Base) % Base, n \div (Base * Base)>>)

\* A decimal literal written in groups of four digits, most significant first.
Lit(groups) == Norm([i \in 1..Len(groups) |-> groups[Len(groups) + 1 - i]])

Limb(a, i) == IF 1 <= i /\ i <= Len(a) THEN a[i] ELSE 0

Lt(a, b) ==
    \/ Len(a) < Len(b)
    \/ /\ Len(a) = Len(b)
       /\ \E i \in 1..Len(a) :
             a[i] < b[i] /\ \A j \in (i + 1)..Len(a) : a[j] = b[j]

Le(a, b) == ~Lt(b, a)
Gt(a, b) == Lt(b, a)
Ge(a, b) == ~Lt(a, b)

\* The carry out of limb i of a + b: some limb sum at or below i overflows the
\* base and every limb sum between it and i passes the carry on.
Carry(a, b, i) ==
    \E j \in 1..i :
        /\ Limb(a, j) + Limb(b, j) >= Base
        /\ \A k \in (j + 1)..i : Limb(a, k) + Limb(b, k) = Base - 1

Add(a, b) ==
    IF a = <<>> THEN b
    ELSE IF b = <<>> THEN a
    ELSE Norm([i \in 1..(IF Len(a) > Len(b) THEN Len(a) ELSE Len(b)) + 1 |->
                 (Limb(a, i) + Limb(b, i)
                    + (IF Carry(a, b, i - 1) THEN 1 ELSE 0)) % Base])

\* The borrow out of limb i of a - b.
Borrow(a, b, i) ==
    \E j \in 1..i :
        /\ Limb(a, j) < Limb(b, j)
        /\ \A k \in (j + 1)..i : Limb(a, k) = Limb(b, k)

\* a - b for a >= b.
Sub(a, b) ==
    IF b = <<>> THEN a
    ELSE Norm([i \in 1..Len(a) |->
                 (a[i] - Limb(b, i)
                    - (IF Borrow(a, b, i - 1) THEN 1 ELSE 0) + Base) % Base])

ShiftLimb(a) == IF a = <<>> THEN <<>> ELSE <<0>> \o a

\* Column i of the schoolbook product of a and b: the sum of the limb products
\* a[j] * b[i + 1 - j], for b of at most 10 limbs (u128) so that it stays below
\* 2^31.
RECURSIVE Column(_, _, _, _)
Column(a, b, i, j) ==
    IF j = 0 THEN 0 ELSE Limb(a, i + 1 - j) * b[j] + Column(a, b, i, j - 1)

\* a * b: the columns, each split into three limbs, added up in place.
Columns(a, b) == [i \in 1..(Len(a) + Len(b)) |-> Column(a, b, i, Len(b))]

MulColumns(c) ==
    Add(Add(Norm([i \in 1..Len(c) |-> c[i] % Base]),
            ShiftLimb(Norm([i \in 1..Len(c) |-> (c[i] \div Base) % Base]))),
        ShiftLimb(ShiftLimb(Norm([i \in 1..Len(c) |-> c[i] \div (Base * Base)]))))

Mul(a, b) ==
    IF a = <<>> \/ b = <<>> THEN <<>>
    ELSE IF Len(a) < Len(b) THEN MulColumns(Columns(b, a))
    ELSE MulColumns(Columns(a, b))

\* a * k for a limb k (0 <= k < Base).
MulLimb(a, k) == IF k = 0 THEN <<>> ELSE Mul(a, <<k>>)

\* a \div k and a % k for a limb k (0 < k < Base), from a's top limb down.
RECURSIVE ShortDiv(_, _, _, _, _)
ShortDiv(a, k, i, rem, q) ==
    IF i = 0 THEN [q |-> Norm(q), r |-> N(rem)]
    ELSE ShortDiv(a, k, i - 1, (rem * Base + a[i]) % k,
                  <<(rem * Base + a[i]) \div k>> \o q)

\* One quotient limb of r \div b, for b whose top limb is at least Base \div 2 and
\* r < b * Base: the estimate from the top limbs is at most 2 too large.
QEstimate(r, b) == (Limb(r, Len(b) + 1) * Base + Limb(r, Len(b))) \div b[Len(b)]

QTry(r, b, qh) ==
    IF Le(MulLimb(b, qh), r) THEN qh
    ELSE IF Le(MulLimb(b, qh - 1), r) THEN qh - 1
    ELSE qh - 2

QDigit(r, b) ==
    QTry(r, b, IF QEstimate(r, b) > Base - 1 THEN Base - 1 ELSE QEstimate(r, b))

\* Long division of a by such a b, from a's most significant limb down.
RECURSIVE DivStep(_, _, _, _, _)
DivPut(a, b, i, r1, q, d) ==
    IF d = 0 THEN DivStep(a, b, i - 1, r1, <<0>> \o q)
    ELSE DivStep(a, b, i - 1, Sub(r1, MulLimb(b, d)), <<d>> \o q)

DivStep(a, b, i, rem, q) ==
    IF i = 0 THEN [q |-> Norm(q), r |-> rem]
    ELSE DivPut(a, b, i, Norm(<<a[i]>> \o rem), q,
                QDigit(Norm(<<a[i]>> \o rem), b))

\* a \div b and a % b for b > 0: both are scaled by f so that the divisor's top
\* limb is at least Base \div 2; the quotient is unchanged, the remainder is
\* scaled back.
Scale(b) == Base \div (b[Len(b)] + 1)

\* The top Len(b) - 1 limbs of a are below b: the division starts under them.
DivFrom(a, b) ==
    DivStep(a, b, Len(a) - Len(b) + 1, SubSeq(a, Len(a) - Len(b) + 2, Len(a)), <<>>)

DivScaled(a, b, f) == DivFrom(MulLimb(a, f), MulLimb(b, f))

DivUnscale(d, f) == [q |-> d.q, r |-> ShortDiv(d.r, f, Len(d.r), 0, <<>>).q]

DivMod(a, b) ==
    IF Lt(a, b) THEN [q |-> Zero, r |-> a]
    ELSE IF Len(b) = 1 THEN ShortDiv(a, b[1], Len(a), 0, <<>>)
    ELSE DivUnscale(DivScaled(a, b, Scale(b)), Scale(b))

Div(a, b) == DivMod(a, b).q
Mod(a, b) == DivMod(a, b).r

Max(a, b) == IF Lt(a, b) THEN b ELSE a

----------------------------------------------------------------------------
(* Rust's fixed-width integers.                                            *)

One == N(1)
\* 2^63 = 9223372036854775808 and 2^64 = 18446744073709551616.
TwoTo63 == Lit(<<922, 3372, 0368, 5477, 5808>>)
TwoTo64 == Lit(<<1844, 6744, 0737, 0955, 1616>>)
U64_MAX == Sub(TwoTo64, One)

\* What the type keeps of a result computed exactly: the low 64 bits.
WrapU64(x) == IF Lt(x, TwoTo64) THEN x ELSE Mod(x, TwoTo64)
FitsU64(x) == Lt(x, TwoTo64)

\* u64::saturating_sub, u64::saturating_add
saturating_sub(a, b) == IF Lt(a, b) THEN Zero ELSE Sub(a, b)
saturating_add(a, b) == IF FitsU64(Add(a, b)) THEN Add(a, b) ELSE U64_MAX

\* i64: a sign and a magnitude; zero is not negative.
I64(neg, mag) == [neg |-> neg /\ mag # Zero, mag |-> mag]
Pos(n) == I64(FALSE, N(n))
Neg(n) == I64(TRUE, N(n))
I64_MAX == I64(FALSE, Sub(TwoTo63, One))
I64_MIN == I64(TRUE, TwoTo63)

SLt(x, y) ==
    IF x.neg # y.neg THEN x.neg
    ELSE IF x.neg THEN Lt(y.mag, x.mag)
    ELSE Lt(x.mag, y.mag)

SGe(x, y) == ~SLt(x, y)

\* x + y, exactly.
SAdd(x, y) ==
    IF x.neg = y.neg THEN I64(x.neg, Add(x.mag, y.mag))
    ELSE IF Lt(x.mag, y.mag) THEN I64(y.neg, Sub(y.mag, x.mag))
    ELSE I64(x.neg, Sub(x.mag, y.mag))

FitsI64(x) == IF x.neg THEN Le(x.mag, TwoTo63) ELSE Lt(x.mag, TwoTo63)

\* What an i64 keeps of the exact sum of two i64: the sum modulo 2^64.
WrapI64(x) ==
    IF FitsI64(x) THEN x
    ELSE IF x.neg THEN SAdd(x, I64(FALSE, TwoTo64))
    ELSE SAdd(x, I64(TRUE, TwoTo64))

----------------------------------------------------------------------------
(* The instruction decoder.                                                *)
(*                                                                         *)
(* Instruction data are taken after bs58::decode: a Result, Ok of a        *)
(* sequence of bytes or Invalid where the string is not base 58.  An       *)
(* Option is a record with a field `some`.                                 *)

BUY_DISCRIMINATOR == <<102, 6, 61, 18, 1, 218, 235, 234>>
SELL_DISCRIMINATOR == <<51, 230, 133, 164, 1, 127, 131, 173>>

None == [some |-> FALSE]
Invalid == [ok |-> FALSE]
Ok(bytes) == [ok |-> TRUE, bytes |-> bytes]

\* u64::from_le_bytes, as borsh reads a u64: the first byte is the lowest.
Shift8(acc, byte) == Add(Mul(acc, N(256)), N(byte))

\* The same bytes read highest first.
from_be_bytes(b) ==
    Shift8(Shift8(Shift8(Shift8(Shift8(Shift8(Shift8(Shift8(Zero,
        b[1]), b[2]), b[3]), b[4]), b[5]), b[6]), b[7]), b[8])

from_le_bytes(b) ==
    Shift8(Shift8(Shift8(Shift8(Shift8(Shift8(Shift8(Shift8(Zero,
        b[8]), b[7]), b[6]), b[5]), b[4]), b[3]), b[2]), b[1])

\* BuyArgs::try_from_slice, SellArgs::try_from_slice: two u64, and no byte more
\* or less.
try_from_slice(payload) ==
    IF Len(payload) = 16
    THEN [some |-> TRUE,
          first |-> from_le_bytes(SubSeq(payload, 1, 8)),
          second |-> from_le_bytes(SubSeq(payload, 9, 16))]
    ELSE None

DecodedInstruction(trade_type, args) ==
    IF args.some
    THEN [some |-> TRUE, trade_type |-> trade_type,
          token_amount_requested |-> args.first,
          sol_limit_specified |-> args.second]
    ELSE None

\* try_decode matching the first four bytes of the discriminator only.
try_decode_half(disc_slice, payload) ==
    IF SubSeq(disc_slice, 1, 4) = SubSeq(BUY_DISCRIMINATOR, 1, 4)
    THEN DecodedInstruction("Buy", try_from_slice(payload))
    ELSE IF SubSeq(disc_slice, 1, 4) = SubSeq(SELL_DISCRIMINATOR, 1, 4)
    THEN DecodedInstruction("Sell", try_from_slice(payload))
    ELSE None

try_decode(disc_slice, payload) ==
    IF disc_slice = BUY_DISCRIMINATOR
    THEN DecodedInstruction("Buy", try_from_slice(payload))
    ELSE IF disc_slice = SELL_DISCRIMINATOR
    THEN DecodedInstruction("Sell", try_from_slice(payload))
    ELSE None

\* The decoder before any call.
DecIdle ==
    /\ raw = Invalid
    /\ sent = [kind |-> "none"]
    /\ dec_pc = "idle"
    /\ tried = <<>>
    /\ decoded = None


----------------------------------------------------------------------------
(* The transaction parser: parse_transaction and the functions it calls.   *)
(*                                                                         *)
(* An EncodedConfirmedTransactionWithStatusMeta is a record: its encoding  *)
(* ("Json" or "Binary"), the form of its message ("Parsed" or "Raw"), the  *)
(* account keys, the slot, the top-level instructions and the meta, an     *)
(* Option.  A UiInstruction is a record of its form and its data after     *)
(* bs58::decode; a string is a sequence of one-character strings.          *)

\* decode_instruction_data, lines 197-210.
decode_instruction_data(r) ==
    IF ~r.ok THEN None
    ELSE IF Len(r.bytes) < 8 THEN None
    ELSE IF try_decode(SubSeq(r.bytes, 1, 8), SubSeq(r.bytes, 9, Len(r.bytes))).some
    THEN try_decode(SubSeq(r.bytes, 1, 8), SubSeq(r.bytes, 9, Len(r.bytes)))
    ELSE IF Len(r.bytes) >= 9
    THEN try_decode(SubSeq(r.bytes, 2, 9), SubSeq(r.bytes, 10, Len(r.bytes)))
    ELSE None

\* UiInstruction::Compiled, UiParsedInstruction::PartiallyDecoded and
\* UiParsedInstruction::Parsed, which carries no data.
Compiled(data) == [form |-> "Compiled", data |-> data]
PartiallyDecoded(data) == [form |-> "PartiallyDecoded", data |-> data]
Parsed == [form |-> "Parsed", data |-> Invalid]

decode_pump_instruction(instruction) ==
    IF instruction.form = "Parsed" THEN None
    ELSE decode_instruction_data(instruction.data)

\* OptionSerializer<Vec<T>>, and as_slice (lines 242-249).
Some(values) == [kind |-> "Some", values |-> values]
Skip == [kind |-> "Skip", values |-> <<>>]
Absent == [kind |-> "None", values |-> <<>>]

as_slice(o) ==
    IF o.kind = "Some" THEN [some |-> TRUE, slice |-> o.values] ELSE None

\* str::parse::<i128>: an optional sign and at least one decimal digit, nothing
\* else.  The value is a sign and a magnitude, as for i64.
Digits == <<"0", "1", "2", "3", "4", "5", "6", "7", "8", "9">>
IsDigit(c) == \E k \in 1..10 : Digits[k] = c
DigitValue(c) == (CHOOSE k \in 1..10 : Digits[k] = c) - 1

RECURSIVE DecimalValue(_, _, _)
DecimalValue(ds, i, acc) ==
    IF i > Len(ds) THEN acc
    ELSE DecimalValue(ds, i + 1, Add(Mul(acc, N(10)), N(DigitValue(ds[i]))))

parse_digits(neg, ds) ==
    IF ds # <<>> /\ \A i \in 1..Len(ds) : IsDigit(ds[i])
    THEN [ok |-> TRUE, value |-> I64(neg, DecimalValue(ds, 1, Zero))]
    ELSE Invalid

parse_i128(str) ==
    IF str = <<>> THEN Invalid
    ELSE IF str[1] = "-" THEN parse_digits(TRUE, Tail(str))
    ELSE IF str[1] = "+" THEN parse_digits(FALSE, Tail(str))
    ELSE parse_digits(FALSE, str)

\* x - y, exactly.
SSub(x, y) == SAdd(x, I64(~y.neg, y.mag))

\* i128_to_i64, lines 308-316.
i128_to_i64(value) ==
    IF SLt(I64_MAX, value) THEN I64_MAX
    ELSE IF SLt(value, I64_MIN) THEN I64_MIN
    ELSE value

\* `u as i64`: the same 64 bits read as a signed number.
as_i64(u) == IF Lt(u, TwoTo63) THEN I64(FALSE, u) ELSE I64(TRUE, Sub(TwoTo64, u))

unwrap_or(o, d) == IF o.some THEN o.value ELSE d

\* compute_sol_change, lines 251-263.
position(account_keys, signer) ==
    IF \E i \in 1..Len(account_keys) : account_keys[i] = signer
    THEN [some |-> TRUE,
          value |-> CHOOSE i \in 1..Len(account_keys) :
                       /\ account_keys[i] = signer
                       /\ \A j \in 1..(i - 1) : account_keys[j] # signer]
    ELSE None

balance_change(pre_balances, post_balances, index) ==
    IF index > Len(pre_balances) \/ index > Len(post_balances) THEN None
    ELSE [some |-> TRUE,
          value |-> i128_to_i64(SSub(I64(FALSE, post_balances[index]),
                                     I64(FALSE, pre_balances[index])))]

compute_sol_change(meta, account_keys, signer) ==
    IF ~position(account_keys, signer).some THEN None
    ELSE balance_change(meta.pre_balances, meta.post_balances,
                        position(account_keys, signer).value)

\* extract_token_total, lines 277-306: the entries of the mint whose owner is
\* given and is the owner asked for and whose amount parses, summed in i128.
\* The amounts of the balances below have at most 20 digits, far from the ends
\* of i128.
counts(balance, owner, mint) ==
    /\ balance.mint = mint
    /\ balance.owner.kind = "Some"
    /\ balance.owner.pubkey = owner
    /\ parse_i128(balance.amount).ok

RECURSIVE token_total(_, _, _, _, _)
token_total(entries, owner, mint, i, total) ==
    IF i > Len(entries) THEN total
    ELSE token_total(entries, owner, mint, i + 1,
                     IF counts(entries[i], owner, mint)
                     THEN SAdd(total, parse_i128(entries[i].amount).value)
                     ELSE total)

extract_token_total(balances, owner, mint) ==
    IF ~balances.some THEN None
    ELSE IF \E i \in 1..Len(balances.slice) : counts(balances.slice[i], owner, mint)
    THEN [some |-> TRUE,
          value |-> token_total(balances.slice, owner, mint, 1, I64(FALSE, Zero))]
    ELSE None

\* compute_token_change, lines 265-275.
token_delta(pre, post) ==
    IF ~pre.some /\ ~post.some THEN None
    ELSE [some |-> TRUE,
          value |-> i128_to_i64(SSub(unwrap_or(post, I64(FALSE, Zero)),
                                     unwrap_or(pre, I64(FALSE, Zero))))]

compute_token_change(meta, owner, mint) ==
    token_delta(extract_token_total(as_slice(meta.pre_token_balances), owner, mint),
                extract_token_total(as_slice(meta.post_token_balances), owner, mint))

\* lines 83-95: both deltas, zero where the meta or the balances are missing.
sol_change_of(t, signer) ==
    IF t.meta.some
    THEN unwrap_or(compute_sol_change(t.meta, t.account_keys, signer), I64(FALSE, Zero))
    ELSE I64(FALSE, Zero)

token_change_of(t, signer, mint) ==
    IF t.meta.some
    THEN unwrap_or(compute_token_change(t.meta, signer, mint), I64(FALSE, Zero))
    ELSE I64(FALSE, Zero)

\* The i64 arithmetic of the printed report, lines 107-148: the negation of a
\* negative delta, and the difference between what happened and the limit or
\* the request cast to i64.  TRUE where an operation leaves i64: a panic with
\* overflow checks, a wrong printed number without.
positive_part(x) == IF SLt(I64(FALSE, Zero), x) THEN x ELSE I64(FALSE, Zero)
negated_part(x) == IF x.neg THEN I64(FALSE, x.mag) ELSE I64(FALSE, Zero)

excess_overflows(actual, limit) ==
    /\ FitsI64(actual)
    /\ SLt(limit, actual)
    /\ ~FitsI64(SSub(actual, limit))

report_overflows(d, sol_change, token_change) ==
    IF d.trade_type = "Buy"
    THEN \/ ~FitsI64(negated_part(sol_change))
         \/ excess_overflows(negated_part(sol_change), as_i64(d.sol_limit_specified))
         \/ excess_overflows(as_i64(d.token_amount_requested), positive_part(token_change))
    ELSE \/ ~FitsI64(negated_part(token_change))
         \/ excess_overflows(as_i64(d.sol_limit_specified), positive_part(sol_change))
         \/ excess_overflows(negated_part(token_change), as_i64(d.token_amount_requested))

\* lines 151-160.
ParsedTransaction(signature, slot, signer, mint, d, sol_change, token_change) ==
    [some |-> TRUE, signature |-> signature, slot |-> slot, signer |-> signer,
     mint |-> mint, trade_type |-> d.trade_type,
     token_amount_requested |-> d.token_amount_requested,
     sol_limit_specified |-> d.sol_limit_specified,
     sol_change |-> sol_change, token_change |-> token_change]

\* The parser before any call.
NoTransaction ==
    [encoding |-> "Binary", message_form |-> "Raw", account_keys |-> <<>>,
     slot |-> Zero, instructions |-> <<>>, meta |-> None]

ParIdle ==
    /\ transaction = NoTransaction
    /\ par_pc = "idle"
    /\ at = <<0, 1>>
    /\ scanned = <<>>
    /\ scan_hit = None
    /\ parsed = None

----------------------------------------------------------------------------
(* The attack detector.                                                    *)
(*                                                                         *)
(* A ParsedTransaction is a record [signature, slot, signer, mint,         *)
(* trade_type, token_amount_requested, sol_limit_specified, sol_change,    *)
(* token_change]: slot and the two intent fields are u64, the two deltas   *)
(* are i64, a signature is a string (a sequence of character codes).       *)
(* DetectorConfig's two f64 thresholds are kept as integers:               *)
(* min_victim_abs_sol in lamports (the default 0.01 is 10_000_000) and     *)
(* min_victim_abs_token in token units; for integer thresholds below 2^52  *)
(* the f64 comparisons of magnitude_exceeds agree with the integer ones.   *)

\* String's `<`: lexicographic on the characters, a proper prefix first.
StrLt(a, b) ==
    \/ \E i \in 1..Len(a) :
          /\ i <= Len(b)
          /\ a[i] < b[i]
          /\ \A j \in 1..(i - 1) : a[j] = b[j]
    \/ /\ Len(a) < Len(b)
       /\ \A j \in 1..Len(a) : a[j] = b[j]

\* DetectorConfig::default
default ==
    [max_slot_gap         |-> N(3),
     min_victim_abs_sol   |-> N(10000000),
     min_victim_abs_token |-> N(100000000),
     min_profit_lamports  |-> Pos(10000),
     min_bot_trades       |-> 2]

occurs_before(a, b) ==
    Lt(a.slot, b.slot) \/ (a.slot = b.slot /\ StrLt(a.signature, b.signature))

\* occurs_after with >= in place of > on the signatures.
occurs_after_or_same(a, b) ==
    Gt(a.slot, b.slot) \/ (a.slot = b.slot /\ ~StrLt(a.signature, b.signature))

occurs_after(a, b) ==
    Gt(a.slot, b.slot) \/ (a.slot = b.slot /\ StrLt(b.signature, a.signature))

is_frontrun_candidate(front, victim) ==
    occurs_before(front, victim) /\ front.trade_type = victim.trade_type

\* is_backrun_candidate asking for the victim's direction, as the front-run test
\* does.
is_backrun_same_direction(back, victim) ==
    occurs_after(back, victim) /\ back.trade_type = victim.trade_type

is_backrun_candidate(back, victim) ==
    occurs_after(back, victim) /\ back.trade_type # victim.trade_type

positive_amount(value) == IF ~value.neg THEN value.mag ELSE Zero

\* (-value) as u64: -i64::MIN overflows; wrapping, it is i64::MIN again, which
\* the cast turns into 2^63.
negative_amount(value) == IF value.neg THEN value.mag ELSE Zero
negative_amount_overflows(value) == value = I64_MIN

analyze_execution(tx) ==
    IF tx.trade_type = "Buy"
    THEN [price_limit  |-> Gt(negative_amount(tx.sol_change), tx.sol_limit_specified),
          amount_limit |-> Lt(positive_amount(tx.token_change), tx.token_amount_requested)]
    ELSE [price_limit  |-> Lt(positive_amount(tx.sol_change), tx.sol_limit_specified),
          amount_limit |-> Gt(negative_amount(tx.token_change), tx.token_amount_requested)]

\* The negation analyze_execution makes of this trade's delta overflows.
analyze_execution_overflows(tx) ==
    IF tx.trade_type = "Buy"
    THEN negative_amount_overflows(tx.sol_change)
    ELSE negative_amount_overflows(tx.token_change)

\* ExecutionBreach::any
any(breach) == breach.price_limit \/ breach.amount_limit

\* magnitude_exceeds without abs_as_sol's division: lamports against a threshold
\* in SOL.
magnitude_exceeds_in_lamports(tx, c) ==
    \/ Ge(Mul(tx.sol_change.mag, N(1000000000)), c.min_victim_abs_sol)
    \/ Ge(tx.token_change.mag, c.min_victim_abs_token)

magnitude_exceeds(tx, c) ==
    \/ Ge(tx.sol_change.mag, c.min_victim_abs_sol)
    \/ Ge(tx.token_change.mag, c.min_victim_abs_token)

\* signer_counts and bot_signers.
signer_count(batch, signer) ==
    Cardinality({i \in 1..Len(batch) : batch[i].signer = signer})

\* bot_signers with the count off by one.
bot_signers_off_by_one(batch, c) ==
    {batch[i].signer : i \in {j \in 1..Len(batch) :
        signer_count(batch, batch[j].signer) + 1 >= c.min_bot_trades}}

bot_signers(batch, c) ==
    {batch[i].signer : i \in {j \in 1..Len(batch) :
        signer_count(batch, batch[j].signer) >= c.min_bot_trades}}

\* by_slot, read in key order: the batch sorted by slot, trades of one slot in
\* the order the batch gives them.
\* by_slot with the trades of one slot sorted by signature.
SlotRankBySignature(batch, i) ==
    Cardinality({j \in 1..Len(batch) :
        \/ Lt(batch[j].slot, batch[i].slot)
        \/ /\ batch[j].slot = batch[i].slot
           /\ j = i \/ StrLt(batch[j].signature, batch[i].signature)})

SlotRank(batch, i) ==
    Cardinality({j \in 1..Len(batch) :
        \/ Lt(batch[j].slot, batch[i].slot)
        \/ (batch[j].slot = batch[i].slot /\ j <= i)})

by_slot(batch) ==
    [r \in 1..Len(batch) |->
        batch[CHOOSE i \in 1..Len(batch) : SlotRank(batch, i) = r]]

\* by_slot.range(lo..=hi), flattened.
InRange(tx, lo, hi) == Le(lo, tx.slot) /\ Le(tx.slot, hi)
range(batch, lo, hi) == SelectSeq(by_slot(batch), LAMBDA tx : InRange(tx, lo, hi))

\* The front-run search (lines 93-112) and the back-run search (lines 121-140).
\* IsFrontrun without the comparison of the mints.
IsFrontrunAnyMint(tx, victim, bots) ==
    /\ tx.signature # victim.signature
    /\ ~(tx.slot = victim.slot /\ ~occurs_before(tx, victim))
    /\ tx.signer \in bots
    /\ is_frontrun_candidate(tx, victim)

IsFrontrun(tx, victim, bots) ==
    /\ tx.signature # victim.signature
    /\ tx.mint = victim.mint
    /\ ~(tx.slot = victim.slot /\ ~occurs_before(tx, victim))
    /\ tx.signer \in bots
    /\ is_frontrun_candidate(tx, victim)

IsBackrun(tx, victim, bots) ==
    /\ tx.signature # victim.signature
    /\ tx.mint = victim.mint
    /\ ~(tx.slot = victim.slot /\ ~occurs_after(tx, victim))
    /\ tx.signer \in bots
    /\ is_backrun_candidate(tx, victim)

frontruns_of(batch, c, victim) ==
    SelectSeq(range(batch, saturating_sub(victim.slot, c.max_slot_gap), victim.slot),
              LAMBDA tx : IsFrontrun(tx, victim, bot_signers(batch, c)))

\* backruns_of with a wrapping addition for the end of the window.
backruns_of_wrapping(batch, c, victim) ==
    SelectSeq(range(batch, victim.slot, WrapU64(Add(victim.slot, c.max_slot_gap))),
              LAMBDA tx : IsBackrun(tx, victim, bot_signers(batch, c)))

backruns_of(batch, c, victim) ==
    SelectSeq(range(batch, victim.slot, saturating_add(victim.slot, c.max_slot_gap)),
              LAMBDA tx : IsBackrun(tx, victim, bot_signers(batch, c)))

\* net_sol += tx.sol_change; net_tokens += tx.token_change, over the legs in
\* order (lines 149-154): the wrapped sums, and whether an addition overflowed.
RECURSIVE net(_, _, _)
net_add(legs, i, acc, sol, tokens) ==
    net(legs, i + 1,
        [sol |-> WrapI64(sol), tokens |-> WrapI64(tokens),
         overflow |-> acc.overflow \/ ~FitsI64(sol) \/ ~FitsI64(tokens)])

net(legs, i, acc) ==
    IF i > Len(legs) THEN acc
    ELSE net_add(legs, i, acc, SAdd(acc.sol, legs[i].sol_change),
                 SAdd(acc.tokens, legs[i].token_change))

net_of(legs) == net(legs, 1, [sol |-> Pos(0), tokens |-> Pos(0), overflow |-> FALSE])

\* The pushes of one victim iteration (lines 114-166).
push_events(sum, c, victim, frontruns, backruns, totals) ==
    [front_runs |->
        IF frontruns # <<>>
        THEN Append(sum.front_runs, [victim |-> victim, frontruns |-> frontruns])
        ELSE sum.front_runs,
     back_runs |->
        IF backruns # <<>>
        THEN Append(sum.back_runs, [victim |-> victim, backruns |-> backruns])
        ELSE sum.back_runs,
     sandwiches |->
        IF /\ frontruns # <<>>
           /\ backruns # <<>>
           /\ SGe(totals.sol, c.min_profit_lamports)
        THEN Append(sum.sandwiches,
                    [victim |-> victim, frontruns |-> frontruns,
                     backruns |-> backruns, net_profit_sol |-> totals.sol,
                     net_token_delta |-> totals.tokens])
        ELSE sum.sandwiches]

\* DetectionSummary::default
empty_summary == [front_runs |-> <<>>, back_runs |-> <<>>, sandwiches |-> <<>>]

\* The detector before any call.
DetIdle ==
    /\ trades = <<>>
    /\ cfg = default
    /\ det_pc = "idle"
    /\ cursor = 1
    /\ summary = empty_summary
    /\ det_overflow = FALSE

----------------------------------------------------------------------------
(* The bonding-curve simulator.                                            *)

LAMPORTS_PER_SOL == 1000000000
TOKEN_DECIMALS == 1000000
INITIAL_VIRTUAL_SOL == Mul(N(30), N(LAMPORTS_PER_SOL))
INITIAL_VIRTUAL_TOKEN == Mul(N(1073000000), N(TOKEN_DECIMALS))
INITIAL_REAL_SOL == N(0)
INITIAL_REAL_TOKEN == Mul(N(793100000), N(TOKEN_DECIMALS))
FEE_BPS == 30

\* PumpAmmState::new
new ==
    [virtual_sol   |-> INITIAL_VIRTUAL_SOL,
     virtual_token |-> INITIAL_VIRTUAL_TOKEN,
     real_sol      |-> INITIAL_REAL_SOL,
     real_token    |-> INITIAL_REAL_TOKEN]

\* (amount * FEE_BPS / 10_000).max(1): the product is a u64 product.
fee_overflows(amount) == ~FitsU64(Mul(amount, N(FEE_BPS)))
fee_of(amount) == Max(Div(WrapU64(Mul(amount, N(FEE_BPS))), N(10000)), One)

\* A quote that divides by the reserve before the input has joined it.
curve_out_stale(in_after_fee, own_reserve, other_reserve) ==
    IF own_reserve = Zero THEN Zero
    ELSE WrapU64(Div(Mul(in_after_fee, other_reserve), own_reserve))

\* A quote rounded up where the division leaves a remainder.
curve_out_rounded_up(in_after_fee, own_reserve, other_reserve) ==
    IF own_reserve = Zero THEN Zero
    ELSE WrapU64(Div(Add(Mul(in_after_fee, other_reserve),
                         Sub(Add(own_reserve, in_after_fee), One)),
                     Add(own_reserve, in_after_fee)))

\* The constant-product quote, computed in u128 and cast to u64; zero when the
\* reserve the input joins is zero.
curve_out(in_after_fee, own_reserve, other_reserve) ==
    IF own_reserve = Zero THEN Zero
    ELSE WrapU64(Div(Mul(in_after_fee, other_reserve),
                     Add(own_reserve, in_after_fee)))

\* A limit that also rejects an output equal to the minimum.
slippage_limit_inclusive(out, min) == IF Le(out, min) THEN Zero ELSE out

\* if out < min { 0 } else { out }
slippage_limit(out, min) == IF Lt(out, min) THEN Zero ELSE out

\* What a call leaves behind: the reserves, what it returned, and whether an
\* integer operation left its type's range (and, with overflow checks, panicked).
Outcome(s, out, computed, after_fee, ovf, panic) ==
    [amm |-> s, out |-> out, computed |-> computed, after_fee |-> after_fee,
     overflow |-> ovf, panic |-> panic]

\* simulate_buy, lines 55-62: the reserve updates, in the order the code makes
\* them; with overflow checks the first addition that overflows panics and what
\* was written before it stays written.
buy_apply(s, sol_in, checks, sol_in_after_fee, computed, tokens_out) ==
    IF fee_overflows(sol_in) /\ checks
    THEN Outcome(s, Zero, Zero, Zero, TRUE, TRUE)
    ELSE IF ~Gt(tokens_out, Zero)
    THEN Outcome(s, tokens_out, computed, sol_in_after_fee,
                 fee_overflows(sol_in), FALSE)
    ELSE IF ~FitsU64(Add(s.virtual_sol, sol_in_after_fee)) /\ checks
    THEN Outcome(s, Zero, computed, sol_in_after_fee, TRUE, TRUE)
    ELSE IF ~FitsU64(Add(s.real_sol, sol_in)) /\ checks
    THEN Outcome([s EXCEPT
                    !.virtual_sol = Add(@, sol_in_after_fee),
                    !.virtual_token = saturating_sub(@, tokens_out)],
                 Zero, computed, sol_in_after_fee, TRUE, TRUE)
    ELSE Outcome([s EXCEPT
                    !.virtual_sol = WrapU64(Add(@, sol_in_after_fee)),
                    !.virtual_token = saturating_sub(@, tokens_out),
                    !.real_sol = WrapU64(Add(@, sol_in)),
                    !.real_token = saturating_sub(@, tokens_out)],
                 tokens_out, computed, sol_in_after_fee,
                 \/ fee_overflows(sol_in)
                 \/ ~FitsU64(Add(s.virtual_sol, sol_in_after_fee))
                 \/ ~FitsU64(Add(s.real_sol, sol_in)),
                 FALSE)

\* simulate_buy, lines 43-53: the quote and the slippage limit.
buy_quote(s, sol_in, min_tokens_out, checks, sol_in_after_fee, computed) ==
    buy_apply(s, sol_in, checks, sol_in_after_fee, computed,
              slippage_limit(computed, min_tokens_out))

\* simulate_buy, lines 40-41: the fee.
buy_fee(s, sol_in, min_tokens_out, checks, sol_in_after_fee) ==
    buy_quote(s, sol_in, min_tokens_out, checks, sol_in_after_fee,
              curve_out(sol_in_after_fee, s.virtual_sol, s.virtual_token))

simulate_buy(s, sol_in, min_tokens_out, checks) ==
    buy_fee(s, sol_in, min_tokens_out, checks,
            saturating_sub(sol_in, fee_of(sol_in)))

\* simulate_sell, lines 81-88.
sell_apply(s, tokens_in, checks, tokens_in_after_fee, computed, sol_out) ==
    IF fee_overflows(tokens_in) /\ checks
    THEN Outcome(s, Zero, Zero, Zero, TRUE, TRUE)
    ELSE IF ~Gt(sol_out, Zero)
    THEN Outcome(s, sol_out, computed, tokens_in_after_fee,
                 fee_overflows(tokens_in), FALSE)
    ELSE IF ~FitsU64(Add(s.virtual_token, tokens_in_after_fee)) /\ checks
    THEN Outcome([s EXCEPT !.virtual_sol = saturating_sub(@, sol_out)],
                 Zero, computed, tokens_in_after_fee, TRUE, TRUE)
    ELSE IF ~FitsU64(Add(s.real_token, tokens_in)) /\ checks
    THEN Outcome([s EXCEPT
                    !.virtual_sol = saturating_sub(@, sol_out),
                    !.virtual_token = Add(@, tokens_in_after_fee),
                    !.real_sol = saturating_sub(@, sol_out)],
                 Zero, computed, tokens_in_after_fee, TRUE, TRUE)
    ELSE Outcome([s EXCEPT
                    !.virtual_sol = saturating_sub(@, sol_out),
                    !.virtual_token = WrapU64(Add(@, tokens_in_after_fee)),
                    !.real_sol = saturating_sub(@, sol_out),
                    !.real_token = WrapU64(Add(@, tokens_in))],
                 sol_out, computed, tokens_in_after_fee,
                 \/ fee_overflows(tokens_in)
                 \/ ~FitsU64(Add(s.virtual_token, tokens_in_after_fee))
                 \/ ~FitsU64(Add(s.real_token, tokens_in)),
                 FALSE)

\* simulate_sell, lines 69-79.
sell_quote(s, tokens_in, min_sol_out, checks, tokens_in_after_fee, computed) ==
    sell_apply(s, tokens_in, checks, tokens_in_after_fee, computed,
               slippage_limit(computed, min_sol_out))

\* simulate_sell, lines 66-67.
sell_fee(s, tokens_in, min_sol_out, checks, tokens_in_after_fee) ==
    sell_quote(s, tokens_in, min_sol_out, checks, tokens_in_after_fee,
               curve_out(tokens_in_after_fee, s.virtual_token, s.virtual_sol))

simulate_sell(s, tokens_in, min_sol_out, checks) ==
    sell_fee(s, tokens_in, min_sol_out, checks,
             saturating_sub(tokens_in, fee_of(tokens_in)))

\* The number of simulated calls of one run.
MaxCalls == 2

\* The genesis quote for one SOL, and the proceeds of selling it straight back.
GenesisQuote == Lit(<<34, 5124, 0442, 6234>>)
GenesisResale == Lit(<<9, 9410, 4924>>)

\* Trade sizes and limits the caller may pass (u64).
SolIns ==
    {Zero, One, N(334), N(LAMPORTS_PER_SOL), Add(Div(U64_MAX, N(FEE_BPS)), One),
     U64_MAX}
MinTokensOuts == {Zero, GenesisQuote, Add(GenesisQuote, One)}
TokensIns == {Zero, N(334), N(TOKEN_DECIMALS), U64_MAX}
MinSolOuts == {Zero, N(27), N(28)}

\* The tokens the most recent buy returned (main's bot_tokens_bought).
tokens_bought ==
    IF calls # <<>> /\ calls[Len(calls)].op = "buy"
    THEN {calls[Len(calls)].out} ELSE {}

Record(op, arg, min, pre, o) ==
    [op |-> op, arg |-> arg, min |-> min, pre |-> pre, post |-> o.amm,
     out |-> o.out, computed |-> o.computed, after_fee |-> o.after_fee,
     overflow |-> o.overflow, panic |-> o.panic]

\* The simulator before any call.
SimIdle ==
    /\ amm = new
    /\ sim_panicked = FALSE
    /\ calls = <<>>

SimInit ==
    /\ overflow_checks \in BOOLEAN
    /\ SimIdle
    /\ DetIdle
    /\ DecIdle
    /\ ParIdle

Buy ==
    /\ ~sim_panicked
    /\ Len(calls) < MaxCalls
    /\ \E sol_in \in SolIns, min_tokens_out \in MinTokensOuts :
          \E o \in {simulate_buy(amm, sol_in, min_tokens_out, overflow_checks)} :
              /\ amm' = o.amm
              /\ sim_panicked' = o.panic
              /\ calls' = Append(calls, Record("buy", sol_in, min_tokens_out, amm, o))
    /\ UNCHANGED <<overflow_checks, par_vars, det_vars, dec_vars>>

Sell ==
    /\ ~sim_panicked
    /\ Len(calls) < MaxCalls
    /\ \E tokens_in \in TokensIns \cup tokens_bought, min_sol_out \in MinSolOuts :
          \E o \in {simulate_sell(amm, tokens_in, min_sol_out, overflow_checks)} :
              /\ amm' = o.amm
              /\ sim_panicked' = o.panic
              /\ calls' = Append(calls, Record("sell", tokens_in, min_sol_out, amm, o))
    /\ UNCHANGED <<overflow_checks, par_vars, det_vars, dec_vars>>

SimNext == Buy \/ Sell

SimSpec == SimInit /\ [][SimNext]_vars

----------------------------------------------------------------------------
(* detect_wide_attacks, one victim iteration per step.                     *)

MaxTrades == 3

Trade(signer, slot, mint, trade_type, requested, limit, sol_change, token_change) ==
    [signer |-> signer, slot |-> N(slot), mint |-> mint, trade_type |-> trade_type,
     token_amount_requested |-> requested, sol_limit_specified |-> limit,
     sol_change |-> sol_change, token_change |-> token_change]

Sol(n) == Mul(N(n), N(LAMPORTS_PER_SOL))

\* Trader S1 buys, trader S2's buy fills beyond both of its limits, S1 sells.
TradeA == Trade("S1", 100, "T", "Buy", N(1000), Sol(5), I64(TRUE, Sol(6)), Pos(900))
TradeB == Trade("S2", 100, "T", "Buy", N(2000), Sol(10), I64(TRUE, Sol(12)), Pos(1800))
TradeC == Trade("S1", 101, "T", "Sell", N(900), Sol(8), I64(FALSE, Sol(8)), Neg(900))

Templates ==
    {TradeA, TradeB, TradeC,
     \* B's breach at a magnitude below both thresholds of the default config
     Trade("S2", 100, "T", "Buy", N(2000), N(10), Neg(12), Pos(1800)),
     \* a sell filled beyond both of its limits
     Trade("S2", 101, "T", "Sell", N(1800), Sol(12), I64(FALSE, Sol(10)), Neg(2000)),
     \* C four slots after A and B
     Trade("S1", 104, "T", "Sell", N(900), Sol(8), I64(FALSE, Sol(8)), Neg(900)),
     \* C on another mint
     Trade("S1", 101, "U", "Sell", N(900), Sol(8), I64(FALSE, Sol(8)), Neg(900)),
     \* C by a trader of its own
     Trade("S3", 101, "T", "Sell", N(900), Sol(8), I64(FALSE, Sol(8)), Neg(900)),
     \* deltas at the ends of i64
     Trade("S1", 99, "T", "Buy", Zero, U64_MAX, I64_MAX, I64_MAX),
     Trade("S2", 101, "T", "Buy", Zero, U64_MAX, I64_MIN, Pos(0))}

\* Signatures, all different; Signature(1) < Signature(2) < ... as strings.
Signature(k) == IF k % 2 = 1 THEN <<(k + 1) \div 2>> ELSE <<k \div 2, 1>>

\* Which signature each place of the batch gets.
SigOrders(n) == {[i \in 1..n |-> i], [i \in 1..n |-> n + 1 - i]}

stamp(t, sig) ==
    [signature |-> sig, slot |-> t.slot, signer |-> t.signer, mint |-> t.mint,
     trade_type |-> t.trade_type,
     token_amount_requested |-> t.token_amount_requested,
     sol_limit_specified |-> t.sol_limit_specified,
     sol_change |-> t.sol_change, token_change |-> t.token_change]

\* The batches of n trades.
Batches(n) ==
    {[i \in 1..n |-> stamp(ts[i], Signature(order[i]))] :
        ts \in [1..n -> Templates], order \in SigOrders(n)}

with_profit(c, p) == [c EXCEPT !.min_profit_lamports = p]

Configs ==
    {default,
     with_profit(default, I64(FALSE, Sol(2))),
     with_profit(default, I64(FALSE, Add(Sol(2), One))),
     [default EXCEPT !.max_slot_gap = Zero, !.min_bot_trades = 1],
     \* every threshold zero, the widest window
     [max_slot_gap         |-> U64_MAX,
      min_victim_abs_sol   |-> Zero,
      min_victim_abs_token |-> Zero,
      min_profit_lamports  |-> Pos(0),
      min_bot_trades       |-> 0]}

DetInit ==
    /\ overflow_checks \in BOOLEAN
    /\ \E n \in 0..MaxTrades : trades \in Batches(n)
    /\ cfg \in Configs
    /\ det_pc = "start"
    /\ cursor = 1
    /\ summary = empty_summary
    /\ det_overflow = FALSE
    /\ SimIdle
    /\ DecIdle
    /\ ParIdle

\* lines 54-56: an empty batch returns the default summary.
ReturnEmpty ==
    /\ det_pc = "start"
    /\ trades = <<>>
    /\ det_pc' = "done"
    /\ summary' = empty_summary
    /\ UNCHANGED <<overflow_checks, par_vars, sim_vars, dec_vars, trades, cfg, cursor, det_overflow>>

\* lines 58-73: signer_counts, bot_signers, by_slot, the empty summary.
BuildIndex ==
    /\ det_pc = "start"
    /\ trades # <<>>
    /\ det_pc' = "scan"
    /\ summary' = empty_summary
    /\ UNCHANGED <<overflow_checks, par_vars, sim_vars, dec_vars, trades, cfg, cursor, det_overflow>>

InLoop == det_pc = "scan" /\ cursor <= Len(trades)

\* line 81 in a build with overflow checks: -i64::MIN panics.
AnalyzePanics ==
    /\ InLoop
    /\ overflow_checks
    /\ analyze_execution_overflows(by_slot(trades)[cursor])
    /\ det_pc' = "panicked"
    /\ det_overflow' = TRUE
    /\ UNCHANGED <<overflow_checks, par_vars, sim_vars, dec_vars, trades, cfg, cursor, summary>>

Analyzed(victim) == ~(overflow_checks /\ analyze_execution_overflows(victim))

\* lines 81-88: the victim is within its limits, or too small: continue.
SkipVictim ==
    /\ InLoop
    /\ \E victim \in {by_slot(trades)[cursor]} :
          /\ Analyzed(victim)
          /\ ~(any(analyze_execution(victim)) /\ magnitude_exceeds(victim, cfg))
          /\ det_overflow' = (det_overflow \/ analyze_execution_overflows(victim))
    /\ cursor' = cursor + 1
    /\ UNCHANGED <<overflow_checks, par_vars, sim_vars, dec_vars, trades, cfg, det_pc, summary>>

\* lines 90-166 for a gathered pair of leg lists; the sums panic in a build with
\* overflow checks, and the unwinding drops the summary.
examine(victim, frontruns, backruns, totals) ==
    /\ det_overflow' =
          (det_overflow \/ analyze_execution_overflows(victim) \/ totals.overflow)
    /\ IF overflow_checks /\ totals.overflow
       THEN /\ det_pc' = "panicked"
            /\ UNCHANGED <<cursor, summary>>
       ELSE /\ det_pc' = det_pc
            /\ cursor' = cursor + 1
            /\ summary' = push_events(summary, cfg, victim, frontruns, backruns, totals)

\* lines 81-166: the victim passes both filters; its legs are gathered and the
\* events pushed.
ExamineVictim ==
    /\ InLoop
    /\ \E victim \in {by_slot(trades)[cursor]} :
          /\ Analyzed(victim)
          /\ any(analyze_execution(victim))
          /\ magnitude_exceeds(victim, cfg)
          /\ \E frontruns \in {frontruns_of(trades, cfg, victim)},
                backruns \in {backruns_of(trades, cfg, victim)} :
                \E totals \in {net_of(frontruns \o backruns)} :
                    examine(victim, frontruns, backruns, totals)
    /\ UNCHANGED <<overflow_checks, par_vars, sim_vars, dec_vars, trades, cfg>>

\* line 170: the loop is over.
Return ==
    /\ det_pc = "scan"
    /\ cursor > Len(trades)
    /\ det_pc' = "done"
    /\ UNCHANGED <<overflow_checks, par_vars, sim_vars, dec_vars, trades, cfg, cursor, summary, det_overflow>>

DetNext == ReturnEmpty \/ BuildIndex \/ AnalyzePanics \/ SkipVictim \/ ExamineVictim \/ Return

DetSpec == DetInit /\ [][DetNext]_vars

----------------------------------------------------------------------------
(* decode_instruction_data, one window per step.                           *)

\* The little-endian bytes of a u64, lowest first.
RECURSIVE le_bytes(_, _)
le_step(d, k) == <<Limb(d.r, 1)>> \o le_bytes(d.q, k - 1)
le_bytes(v, k) == IF k = 0 THEN <<>> ELSE le_step(DivMod(v, N(256)), k)

to_le_bytes(v) == le_bytes(v, 8)

Discriminator(trade_type) ==
    IF trade_type = "Buy" THEN BUY_DISCRIMINATOR ELSE SELL_DISCRIMINATOR

\* An instruction payload: the leading bytes, the discriminator, the arguments.
Encode(lead, trade_type, amount, limit) ==
    lead \o Discriminator(trade_type) \o to_le_bytes(amount) \o to_le_bytes(limit)

U64s ==
    {Zero, One, N(255), N(256), N(LAMPORTS_PER_SOL),
     Lit(<<102, 0661, 0018, 0121, 8235>>), TwoTo63, U64_MAX}

\* No leading byte, or one.
Leads == {<<>>, <<0>>, <<51>>, <<102>>, <<255>>}

Instructions ==
    {[kind |-> "instruction", lead |-> lead, trade_type |-> t,
      amount |-> a, limit |-> l] :
        lead \in Leads, t \in {"Buy", "Sell"}, a \in U64s, l \in U64s}

\* Other data: short, with a byte of the discriminator changed, with the
\* discriminator at offset 2, with arguments a byte short or long.
Damaged ==
    {<<>>,
     SubSeq(BUY_DISCRIMINATOR, 1, 7),
     BUY_DISCRIMINATOR,
     SELL_DISCRIMINATOR \o <<0>>,
     [BUY_DISCRIMINATOR EXCEPT ![8] = 235] \o to_le_bytes(One) \o to_le_bytes(One),
     [SELL_DISCRIMINATOR EXCEPT ![1] = 52] \o to_le_bytes(One) \o to_le_bytes(One),
     <<7>> \o [BUY_DISCRIMINATOR EXCEPT ![5] = 2] \o to_le_bytes(One) \o to_le_bytes(One),
     Encode(<<1, 2>>, "Buy", One, One),
     SubSeq(Encode(<<>>, "Buy", One, One), 1, 23),
     Encode(<<>>, "Sell", One, One) \o <<0>>,
     Encode(<<9>>, "Sell", One, One) \o <<0>>,
     SubSeq(Encode(<<9>>, "Buy", One, One), 1, 24)}

DecInit ==
    /\ overflow_checks \in BOOLEAN
    /\ \/ \E i \in Instructions :
             /\ sent = i
             /\ raw = Ok(Encode(i.lead, i.trade_type, i.amount, i.limit))
       \/ \E bytes \in Damaged :
             /\ sent = [kind |-> "damaged"]
             /\ raw = Ok(bytes)
       \/ /\ sent = [kind |-> "not base 58"]
          /\ raw = Invalid
    /\ dec_pc = "start"
    /\ tried = <<>>
    /\ decoded = None
    /\ SimIdle
    /\ DetIdle
    /\ ParIdle

\* lines 198-201: bs58::decode fails, or gives fewer than 8 bytes.
ReturnNone ==
    /\ dec_pc = "start"
    /\ IF raw.ok THEN Len(raw.bytes) < 8 ELSE TRUE
    /\ dec_pc' = "done"
    /\ decoded' = None
    /\ UNCHANGED <<overflow_checks, par_vars, sim_vars, det_vars, raw, sent, tried>>

\* line 203: try_decode(&raw[..8], &raw[8..]).
TryWindow0 ==
    /\ dec_pc = "start"
    /\ raw.ok /\ Len(raw.bytes) >= 8
    /\ \E hit \in {try_decode(SubSeq(raw.bytes, 1, 8),
                              SubSeq(raw.bytes, 9, Len(raw.bytes)))} :
          /\ decoded' = hit
          /\ dec_pc' = IF hit.some THEN "done" ELSE "or_else"
    /\ tried' = Append(tried, 0)
    /\ UNCHANGED <<overflow_checks, par_vars, sim_vars, det_vars, raw, sent>>

\* lines 204-205: try_decode(&raw[1..9], &raw[9..]).
TryWindow1 ==
    /\ dec_pc = "or_else"
    /\ Len(raw.bytes) >= 9
    /\ decoded' = try_decode(SubSeq(raw.bytes, 2, 9),
                             SubSeq(raw.bytes, 10, Len(raw.bytes)))
    /\ dec_pc' = "done"
    /\ tried' = Append(tried, 1)
    /\ UNCHANGED <<overflow_checks, par_vars, sim_vars, det_vars, raw, sent>>

\* lines 206-208: exactly 8 bytes, no second window.
NoWindow1 ==
    /\ dec_pc = "or_else"
    /\ Len(raw.bytes) < 9
    /\ decoded' = None
    /\ dec_pc' = "done"
    /\ UNCHANGED <<overflow_checks, par_vars, sim_vars, det_vars, raw, sent, tried>>

DecNext == ReturnNone \/ TryWindow0 \/ TryWindow1 \/ NoWindow1

DecSpec == DecInit /\ [][DecNext]_vars

----------------------------------------------------------------------------
(* parse_transaction, a step for each instruction the scan looks at.       *)

\* The longest list of top-level instructions.
MaxInstructions == 2

\* The signature and the mint handed to parse_transaction, and the fee payer.
TxSignature == <<1>>
TargetMint == "T"
Payer == "S1"

Owner(pubkey) == [kind |-> "Some", pubkey |-> pubkey]
NoOwner == [kind |-> "None", pubkey |-> ""]
TokenBalance(mint, owner, amount) == [mint |-> mint, owner |-> owner, amount |-> amount]

\* Top-level instructions: a buy, a sell behind a leading byte, data that are
\* not base 58, too short, of an unknown discriminator, of arguments a byte
\* short, and an instruction the node has parsed.
TopBuy == Compiled(Ok(Encode(<<>>, "Buy", N(1000), Sol(5))))
TopSell == PartiallyDecoded(Ok(Encode(<<0>>, "Sell", N(900), Sol(8))))
Undecodable ==
    {Compiled(Invalid),
     Compiled(Ok(SubSeq(BUY_DISCRIMINATOR, 1, 7))),
     PartiallyDecoded(Ok([SELL_DISCRIMINATOR EXCEPT ![1] = 52]
                         \o to_le_bytes(One) \o to_le_bytes(One))),
     Compiled(Ok(SubSeq(Encode(<<>>, "Buy", One, One), 1, 23))),
     Parsed}
TopPool == {TopBuy, TopSell} \cup Undecodable

\* Inner instructions, of other amounts than the top-level ones.
InnerBuy == PartiallyDecoded(Ok(Encode(<<>>, "Buy", N(2000), Sol(10))))
InnerSell == Compiled(Ok(Encode(<<>>, "Sell", N(1800), Sol(12))))
Group(instructions) == [index |-> 0, instructions |-> instructions]
Groups ==
    {Group(<<>>),
     Group(<<Compiled(Invalid)>>),
     Group(<<InnerSell>>),
     Group(<<Compiled(Ok(SubSeq(BUY_DISCRIMINATOR, 1, 7))), InnerBuy>>),
     Group(<<InnerBuy, InnerSell>>)}
InnerInstructions ==
    {Absent, Skip, Some(<<>>)}
    \cup {Some(<<g>>) : g \in Groups}
    \cup {Some(<<g, h>>) : g \in Groups, h \in Groups}

Meta(inner, pre, post, pre_tokens, post_tokens) ==
    [some |-> TRUE, inner_instructions |-> inner,
     pre_balances |-> pre, post_balances |-> post,
     pre_token_balances |-> pre_tokens, post_token_balances |-> post_tokens]

\* No meta, or a meta without balances.
ScanMetas ==
    {None} \cup {Meta(inner, <<>>, <<>>, Absent, Absent) : inner \in InnerInstructions}

\* The encoding, the form of the message and the account keys: a parsed message
\* of a Json transaction, and the others.
Structured ==
    [encoding |-> "Json", message_form |-> "Parsed", account_keys |-> <<Payer, "S9">>]
OtherForms ==
    {[encoding |-> "Json", message_form |-> "Parsed", account_keys |-> <<>>],
     [encoding |-> "Json", message_form |-> "Raw", account_keys |-> <<Payer, "S9">>],
     [encoding |-> "Binary", message_form |-> "Raw", account_keys |-> <<Payer, "S9">>]}
OtherMetas ==
    {None, Meta(Some(<<Group(<<InnerSell>>)>>), <<>>, <<>>, Absent, Absent)}

Transaction(form, instructions, meta) ==
    [encoding |-> form.encoding, message_form |-> form.message_form,
     account_keys |-> form.account_keys, slot |-> N(100),
     instructions |-> instructions, meta |-> meta]

\* Trades for the deltas: the two above, a buy of limit 2^63, a sell of 2^63
\* tokens, a buy of limit u64::MAX.
DeltaInstructions ==
    {TopBuy, TopSell,
     Compiled(Ok(Encode(<<>>, "Buy", N(2000), TwoTo63))),
     Compiled(Ok(Encode(<<>>, "Sell", TwoTo63, One))),
     Compiled(Ok(Encode(<<>>, "Buy", Zero, U64_MAX)))}

\* pre_balances and post_balances: none, 10 SOL to 4 SOL, 4 SOL to 10 SOL,
\* nothing to u64::MAX and back, and a post list that is short.
Lamports ==
    {<< <<>>, <<>> >>,
     << <<Sol(10), Sol(1)>>, <<Sol(4), Sol(1)>> >>,
     << <<Sol(4), Sol(1)>>, <<Sol(10), Sol(1)>> >>,
     << <<Zero>>, <<U64_MAX>> >>,
     << <<U64_MAX>>, <<Zero>> >>,
     << <<Sol(5)>>, <<>> >>}

\* Amounts: "1000", "900", "7", "" and "1e3", which do not parse, u64::MAX and
\* 2^63.
Amount1000 == <<"1", "0", "0", "0">>
Amount900 == <<"9", "0", "0">>
Amount7 == <<"7">>
AmountU64Max ==
    <<"1", "8", "4", "4", "6", "7", "4", "4", "0", "7",
      "3", "7", "0", "9", "5", "5", "1", "6", "1", "5">>
Amount2To63 ==
    <<"9", "2", "2", "3", "3", "7", "2", "0", "3", "6",
      "8", "5", "4", "7", "7", "5", "8", "0", "8">>

\* pre_token_balances and post_token_balances: absent; empty; the payer's
\* balance of the mint in one entry or two; entries of another mint, another
\* owner and no owner; amounts that do not parse; the largest amounts.
TokenBalances ==
    {Absent, Skip, Some(<<>>),
     Some(<<TokenBalance(TargetMint, Owner(Payer), Amount1000)>>),
     Some(<<TokenBalance(TargetMint, Owner(Payer), Amount1000),
            TokenBalance(TargetMint, Owner(Payer), Amount900)>>),
     Some(<<TokenBalance("U", Owner(Payer), Amount7),
            TokenBalance(TargetMint, Owner("S9"), Amount7),
            TokenBalance(TargetMint, NoOwner, Amount7)>>),
     Some(<<TokenBalance(TargetMint, Owner(Payer), <<>>)>>),
     Some(<<TokenBalance(TargetMint, Owner(Payer), <<"1", "e", "3">>),
            TokenBalance(TargetMint, Owner(Payer), Amount900),
            TokenBalance("U", Owner(Payer), Amount7)>>),
     Some(<<TokenBalance(TargetMint, Owner(Payer), AmountU64Max)>>),
     Some(<<TokenBalance(TargetMint, Owner(Payer), Amount2To63)>>)}

DeltaMetas ==
    {None} \cup {Meta(Absent, l[1], l[2], pre, post) :
                    l \in Lamports, pre \in TokenBalances, post \in TokenBalances}

ParInit ==
    /\ overflow_checks \in BOOLEAN
    /\ \/ \E n \in 0..MaxInstructions :
             \E instructions \in [1..n -> TopPool] :
                 \/ \E meta \in ScanMetas :
                       transaction = Transaction(Structured, instructions, meta)
                 \/ \E form \in OtherForms, meta \in OtherMetas :
                       transaction = Transaction(form, instructions, meta)
       \/ \E instruction \in DeltaInstructions, meta \in DeltaMetas :
             transaction = Transaction(Structured, <<instruction>>, meta)
    /\ par_pc = "start"
    /\ at = <<0, 1>>
    /\ scanned = <<>>
    /\ scan_hit = None
    /\ parsed = None
    /\ SimIdle
    /\ DetIdle
    /\ DecIdle

\* lines 47-54: the transaction is not Json, or its message is not Parsed.
ReturnUnstructured ==
    /\ par_pc = "start"
    /\ transaction.encoding # "Json" \/ transaction.message_form # "Parsed"
    /\ parsed' = None
    /\ par_pc' = "done"
    /\ UNCHANGED <<overflow_checks, sim_vars, det_vars, dec_vars, transaction, at, scanned, scan_hit>>

\* line 56: message.account_keys.first()? on an empty list.
ReturnNoSigner ==
    /\ par_pc = "start"
    /\ transaction.encoding = "Json" /\ transaction.message_form = "Parsed"
    /\ transaction.account_keys = <<>>
    /\ parsed' = None
    /\ par_pc' = "done"
    /\ UNCHANGED <<overflow_checks, sim_vars, det_vars, dec_vars, transaction, at, scanned, scan_hit>>

\* lines 56-59: the signer and the slot are taken, the top-level scan begins.
EnterScan ==
    /\ par_pc = "start"
    /\ transaction.encoding = "Json" /\ transaction.message_form = "Parsed"
    /\ transaction.account_keys # <<>>
    /\ par_pc' = "top"
    /\ UNCHANGED <<overflow_checks, sim_vars, det_vars, dec_vars, transaction, at, scanned, scan_hit, parsed>>

\* scan_instruction_stream, lines 170-174: one top-level instruction.
ScanTop ==
    /\ par_pc = "top"
    /\ at[2] <= Len(transaction.instructions)
    /\ \E d \in {decode_pump_instruction(transaction.instructions[at[2]])} :
          /\ scan_hit' = d
          /\ par_pc' = IF d.some THEN "deltas" ELSE "top"
          /\ at' = IF d.some THEN at ELSE <<0, at[2] + 1>>
    /\ scanned' = Append(scanned, at)
    /\ UNCHANGED <<overflow_checks, sim_vars, det_vars, dec_vars, transaction, parsed>>

\* The inner groups the scan may turn to (lines 62-63).
inner_groups(t) ==
    IF t.meta.some THEN as_slice(t.meta.inner_instructions) ELSE None

\* line 175 and lines 61-63: no top-level instruction decoded.
TopExhausted ==
    /\ par_pc = "top"
    /\ at[2] > Len(transaction.instructions)
    /\ par_pc' = IF inner_groups(transaction).some THEN "inner" ELSE "deltas"
    /\ at' = <<1, 1>>
    /\ UNCHANGED <<overflow_checks, sim_vars, det_vars, dec_vars, transaction, scanned, scan_hit, parsed>>

\* lines 69-74: one instruction of an inner group.
ScanInner ==
    /\ par_pc = "inner"
    /\ at[1] <= Len(inner_groups(transaction).slice)
    /\ at[2] <= Len(inner_groups(transaction).slice[at[1]].instructions)
    /\ \E d \in {decode_pump_instruction(
                     inner_groups(transaction).slice[at[1]].instructions[at[2]])} :
          /\ scan_hit' = d
          /\ par_pc' = IF d.some THEN "deltas" ELSE "inner"
          /\ at' = IF d.some THEN at ELSE <<at[1], at[2] + 1>>
    /\ scanned' = Append(scanned, at)
    /\ UNCHANGED <<overflow_checks, sim_vars, det_vars, dec_vars, transaction, parsed>>

\* lines 64-78: the group is through, the next one follows.
NextGroup ==
    /\ par_pc = "inner"
    /\ at[1] <= Len(inner_groups(transaction).slice)
    /\ at[2] > Len(inner_groups(transaction).slice[at[1]].instructions)
    /\ at' = <<at[1] + 1, 1>>
    /\ UNCHANGED <<overflow_checks, sim_vars, det_vars, dec_vars, transaction, par_pc, scanned, scan_hit, parsed>>

\* line 79: the groups are through.
InnerExhausted ==
    /\ par_pc = "inner"
    /\ at[1] > Len(inner_groups(transaction).slice)
    /\ par_pc' = "deltas"
    /\ UNCHANGED <<overflow_checks, sim_vars, det_vars, dec_vars, transaction, at, scanned, scan_hit, parsed>>

\* line 162: nothing decoded.
ReturnNoTrade ==
    /\ par_pc = "deltas"
    /\ ~scan_hit.some
    /\ parsed' = None
    /\ par_pc' = "done"
    /\ UNCHANGED <<overflow_checks, sim_vars, det_vars, dec_vars, transaction, at, scanned, scan_hit>>

\* lines 83-95: the deltas of the signer, the first account key.
deltas_of(t) ==
    <<sol_change_of(t, t.account_keys[1]),
      token_change_of(t, t.account_keys[1], TargetMint)>>

\* lines 83-160: the deltas, the report, the trade.
ReturnTrade ==
    /\ par_pc = "deltas"
    /\ scan_hit.some
    /\ \E d \in {deltas_of(transaction)} :
          /\ ~(overflow_checks /\ report_overflows(scan_hit, d[1], d[2]))
          /\ parsed' = ParsedTransaction(TxSignature, transaction.slot,
                                         transaction.account_keys[1], TargetMint,
                                         scan_hit, d[1], d[2])
    /\ par_pc' = "done"
    /\ UNCHANGED <<overflow_checks, sim_vars, det_vars, dec_vars, transaction, at, scanned, scan_hit>>

\* lines 107-148 with overflow checks: the report's arithmetic panics.
ReportPanics ==
    /\ par_pc = "deltas"
    /\ scan_hit.some
    /\ overflow_checks
    /\ \E d \in {deltas_of(transaction)} : report_overflows(scan_hit, d[1], d[2])
    /\ par_pc' = "panicked"
    /\ UNCHANGED <<overflow_checks, sim_vars, det_vars, dec_vars, transaction, at, scanned, scan_hit, parsed>>

ParNext ==
    \/ ReturnUnstructured
    \/ ReturnNoSigner
    \/ EnterScan
    \/ ScanTop
    \/ TopExhausted
    \/ ScanInner
    \/ NextGroup
    \/ InnerExhausted
    \/ ReturnNoTrade
    \/ ReturnTrade
    \/ ReportPanics

ParSpec == ParInit /\ [][ParNext]_vars


----------------------------------------------------------------------------
(* Claims about the simulator.                                             *)

Returned(c) == ~c.panic
Rejected(c) == Returned(c) /\ Lt(c.computed, c.min)
Accepted(c) == Returned(c) /\ ~Lt(c.computed, c.min)
GenesisBuy(c) == c.op = "buy" /\ c.pre = new /\ c.arg = N(LAMPORTS_PER_SOL)

\* C1: a rejected trade (computed output below the caller's minimum, buy or
\* sell) reports zero and leaves the four reserves unchanged; at genesis a buy of
\* 1_000_000_000 with a minimum one above its quote is rejected, and with a
\* minimum equal to the quote it is accepted and returns the quote.
C1_RejectedTradeLeavesReserves ==
    \A i \in 1..Len(calls) :
        /\ Rejected(calls[i]) => calls[i].out = Zero /\ calls[i].post = calls[i].pre
        /\ GenesisBuy(calls[i]) /\ Returned(calls[i]) =>
              /\ calls[i].computed = GenesisQuote
              /\ calls[i].min = Add(GenesisQuote, One) =>
                    Rejected(calls[i]) /\ calls[i].post = new
              /\ calls[i].min = GenesisQuote =>
                    /\ Accepted(calls[i])
                    /\ calls[i].out = GenesisQuote
                    /\ calls[i].post # new

C1_Witness ==
    /\ Len(calls) = 2
    /\ GenesisBuy(calls[1])
    /\ calls[1].min = Add(GenesisQuote, One)
    /\ calls[1].out = Zero
    /\ amm = new
    /\ calls[2].op = "sell"
    /\ calls[2].computed = N(27)
    /\ calls[2].min = N(28)
    /\ calls[2].out = Zero

\* C7: no integer operation of the simulator leaves the range of its type: the
\* fee product and the reserve additions are clamped or saturated.
C7_NoOverflow == ~det_overflow /\ \A i \in 1..Len(calls) : ~calls[i].overflow

RoundTrip ==
    /\ Len(calls) >= 2
    /\ calls[1].op = "buy"
    /\ Accepted(calls[1])
    /\ calls[2].op = "sell"
    /\ calls[2].arg = calls[1].out
    /\ calls[2].min = Zero
    /\ Returned(calls[2])

RoundTripBounds ==
    /\ Ge(calls[2].post.virtual_sol, new.virtual_sol)
    /\ Le(Sub(calls[2].post.virtual_sol, new.virtual_sol), calls[1].after_fee)

----------------------------------------------------------------------------
(* Claims about the detector.                                              *)

\* The amount by which a delta is positive, and by which it is negative.
Gained(delta) == IF delta.neg THEN Zero ELSE delta.mag
Lost(delta) == IF delta.neg THEN delta.mag ELSE Zero

\* Buy: currency spent does not exceed the declared max cost and tokens received
\* are not below the requested amount.  Sell: currency received is not below the
\* declared min proceeds and tokens given up do not exceed the requested amount.
NoBreach(tx) ==
    IF tx.trade_type = "Buy"
    THEN /\ Le(Lost(tx.sol_change), tx.sol_limit_specified)
         /\ Ge(Gained(tx.token_change), tx.token_amount_requested)
    ELSE /\ Ge(Gained(tx.sol_change), tx.sol_limit_specified)
         /\ Le(Lost(tx.token_change), tx.token_amount_requested)

BelowMagnitudes(tx) ==
    /\ Lt(tx.sol_change.mag, cfg.min_victim_abs_sol)
    /\ Lt(tx.token_change.mag, cfg.min_victim_abs_token)

Events == <<summary.front_runs, summary.back_runs, summary.sandwiches>>

\* The victims of an output sequence, in its order.
Victims(events) == [i \in 1..Len(events) |-> events[i].victim]

\* The place of a trade in the input batch.
BatchIndex(tx) == CHOOSE i \in 1..Len(trades) : trades[i].signature = tx.signature

\* The legs an output sequence pairs with a victim; none when it has no event
\* for that victim.
LegsIn(events, field, victim) ==
    IF \E i \in 1..Len(events) : events[i].victim = victim
    THEN events[CHOOSE i \in 1..Len(events) : events[i].victim = victim][field]
    ELSE <<>>

\* All the legs of the three output sequences.
AllLegs ==
    UNION ({{e.frontruns[i] : i \in 1..Len(e.frontruns)} :
               e \in {summary.front_runs[k] : k \in 1..Len(summary.front_runs)}
                     \cup {summary.sandwiches[k] : k \in 1..Len(summary.sandwiches)}}
           \cup
           {{e.backruns[i] : i \in 1..Len(e.backruns)} :
               e \in {summary.back_runs[k] : k \in 1..Len(summary.back_runs)}
                     \cup {summary.sandwiches[k] : k \in 1..Len(summary.sandwiches)}})

\* The exact sum of a field of the legs.
RECURSIVE SumOf(_, _, _)
SumOf(legs, field, i) ==
    IF i > Len(legs) THEN Pos(0)
    ELSE SAdd(legs[i][field], SumOf(legs, field, i + 1))

SandwichesOf(victim) ==
    {summary.sandwiches[k] : k \in {j \in 1..Len(summary.sandwiches) :
        summary.sandwiches[j].victim = victim}}

\* What C2 says of one victim with front-run legs F and back-run legs B.
ProfitGate(victim, F, B) ==
    /\ (SandwichesOf(victim) # {}) <=>
          (/\ F # <<>>
           /\ B # <<>>
           /\ SGe(SumOf(F \o B, "sol_change", 1), cfg.min_profit_lamports))
    /\ \A s \in SandwichesOf(victim) :
          /\ s.frontruns = F
          /\ s.backruns = B
          /\ s.net_profit_sol = SumOf(F \o B, "sol_change", 1)
          /\ s.net_token_delta = SumOf(F \o B, "token_change", 1)

PassesFilters(tx) == ~NoBreach(tx) /\ ~BelowMagnitudes(tx)

\* C2: when detect_wide_attacks returns, for every victim that passes the breach
\* and magnitude filters a sandwich is emitted if and only if its front-run legs
\* and its back-run legs are both non-empty and the sum of the currency deltas of
\* all those legs is at least min_profit_lamports; the sandwich carries those
\* legs, that sum as net profit and the sum of the legs' token deltas.
C2_SandwichProfitGate ==
    det_pc = "done" =>
        \A i \in 1..Len(trades) :
            PassesFilters(trades[i]) =>
                ProfitGate(trades[i],
                           LegsIn(summary.front_runs, "frontruns", trades[i]),
                           LegsIn(summary.back_runs, "backruns", trades[i]))

\* The same gate in the runs where no i64 operation left the type's range.
ProfitGateInRange == det_overflow \/ C2_SandwichProfitGate

\* A returned run with a sandwich whose net profit equals the threshold.
ProfitGateAtThreshold ==
    /\ det_pc = "done"
    /\ ~det_overflow
    /\ \E k \in 1..Len(summary.sandwiches) :
          summary.sandwiches[k].net_profit_sol = cfg.min_profit_lamports

\* C3: a trade with no execution breach, or with both deltas below the
\* configured minimum magnitudes, is never the victim of a front-run event, a
\* back-run event or a sandwich.
C3_VictimFilter ==
    \A s \in 1..3 :
        \A k \in 1..Len(Events[s]) :
            /\ ~NoBreach(Events[s][k].victim)
            /\ ~BelowMagnitudes(Events[s][k].victim)

\* A returned run whose batch holds a trade that is kept out by a filter while
\* bot trades qualify as its legs on both sides.
C3_Witness ==
    /\ det_pc = "done"
    /\ \E i \in 1..Len(trades) :
          /\ NoBreach(trades[i]) \/ BelowMagnitudes(trades[i])
          /\ frontruns_of(trades, cfg, trades[i]) # <<>>
          /\ backruns_of(trades, cfg, trades[i]) # <<>>
          /\ \A s \in 1..3 : \A k \in 1..Len(Events[s]) :
                Events[s][k].victim # trades[i]

\* The number of trades of the whole batch a signer signed.
TradesBy(signer) == Cardinality({i \in 1..Len(trades) : trades[i].signer = signer})

\* C4: every leg of every front-run event, back-run event and sandwich is signed
\* by a signer of at least min_bot_trades trades of the whole batch.
C4_BotGating == \A leg \in AllLegs : TradesBy(leg.signer) >= cfg.min_bot_trades

\* A returned run with min_bot_trades >= 2 where a victim has a front-run event
\* and a trade of a one-trade signer meets every other back-run condition, and
\* is no leg.
C4_Witness ==
    /\ det_pc = "done"
    /\ cfg.min_bot_trades >= 2
    /\ \E k \in 1..Len(summary.front_runs), i \in 1..Len(trades) :
          /\ TradesBy(trades[i].signer) = 1
          /\ IsBackrun(trades[i], summary.front_runs[k].victim, {trades[i].signer})
          /\ InRange(trades[i], summary.front_runs[k].victim.slot,
                     saturating_add(summary.front_runs[k].victim.slot, cfg.max_slot_gap))
          /\ trades[i] \notin AllLegs

\* Victims in ascending slot order, those of one slot in batch order.
InBatchOrder(victims) ==
    \A i, j \in 1..Len(victims) :
        i < j =>
            /\ Le(victims[i].slot, victims[j].slot)
            /\ victims[i].slot = victims[j].slot =>
                  BatchIndex(victims[i]) < BatchIndex(victims[j])

\* C5: in front_runs, back_runs and sandwiches the victims appear in ascending
\* slot order, and victims of one slot in the order the batch gives them.
C5_OutputOrdering == \A s \in 1..3 : InBatchOrder(Victims(Events[s]))

\* A returned run where an output sequence holds two victims of one slot, the
\* first with the greater signature, and one where it holds victims of two
\* slots that the batch gives in descending slot order.
SameSlotAgainstSignature(victims) ==
    \E i, j \in 1..Len(victims) :
        /\ i < j
        /\ victims[i].slot = victims[j].slot
        /\ StrLt(victims[j].signature, victims[i].signature)

C5_Witness ==
    /\ det_pc = "done"
    /\ \E s \in 1..3 : SameSlotAgainstSignature(Victims(Events[s]))

C5_WitnessSlots ==
    /\ det_pc = "done"
    /\ \E s \in 1..3 : \E i, j \in 1..Len(Events[s]) :
          /\ i < j
          /\ Lt(Events[s][i].victim.slot, Events[s][j].victim.slot)
          /\ BatchIndex(Events[s][j].victim) < BatchIndex(Events[s][i].victim)

\* The batch is A, B and C in some order, A's signature below B's, under the
\* default config with any profit threshold.
unstamped(tx) ==
    Trade(tx.signer, 0, tx.mint, tx.trade_type, tx.token_amount_requested,
          tx.sol_limit_specified, tx.sol_change, tx.token_change)

Is(tx, template) == unstamped(tx) = unstamped(template) /\ tx.slot = template.slot

Scenario(a, b, c) ==
    /\ Len(trades) = 3
    /\ {a, b, c} = {1, 2, 3}
    /\ Is(trades[a], TradeA) /\ Is(trades[b], TradeB) /\ Is(trades[c], TradeC)
    /\ StrLt(trades[a].signature, trades[b].signature)
    /\ with_profit(cfg, default.min_profit_lamports) = default

ScenarioSandwich(a, b, c) ==
    [victim |-> trades[b], frontruns |-> <<trades[a]>>, backruns |-> <<trades[c]>>,
     net_profit_sol |-> I64(FALSE, Sol(2)), net_token_delta |-> Pos(0)]

ScenarioOutcome(a, b, c) ==
    /\ {trades[i].signer : i \in {j \in 1..3 :
           TradesBy(trades[j].signer) >= cfg.min_bot_trades}} = {"S1"}
    /\ PassesFilters(trades[b])
    /\ LegsIn(summary.front_runs, "frontruns", trades[b]) = <<trades[a]>>
    /\ LegsIn(summary.back_runs, "backruns", trades[b]) = <<trades[c]>>
    /\ IF SGe(I64(FALSE, Sol(2)), cfg.min_profit_lamports)
       THEN SandwichesOf(trades[b]) = {ScenarioSandwich(a, b, c)}
       ELSE SandwichesOf(trades[b]) = {}

\* C6: for the batch A (S1, Buy, slot 100, requested 1000, limit 5 SOL, -6 SOL /
\* +900 tokens) sorting before B (S2, Buy, slot 100, requested 2000, limit 10
\* SOL, -12 SOL / +1800 tokens), and C (S1, Sell, slot 101, +8 SOL / -900
\* tokens), the bot signers are {S1}, B is a victim with front-run leg A and
\* back-run leg C, and a sandwich for B with net profit 2 SOL and net token
\* delta 0 is emitted when min_profit_lamports is at most 2 SOL, none otherwise.
C6_EndToEndScenario ==
    \A a, b, c \in 1..3 :
        (det_pc = "done" /\ Scenario(a, b, c)) => ScenarioOutcome(a, b, c)

\* The scenario has returned with its sandwich.
C6_Witness ==
    /\ det_pc = "done"
    /\ \E a, b, c \in 1..3 :
          /\ Scenario(a, b, c)
          /\ summary.sandwiches = <<ScenarioSandwich(a, b, c)>>

----------------------------------------------------------------------------
(* Claims about the decoder.                                               *)

\* C9: a payload made of the buy or the sell discriminator and two u64 as 16
\* little-endian bytes, with no leading byte or with one, decodes to that
\* direction and those two values.
C9_DecoderRoundTrip ==
    (dec_pc = "done" /\ sent.kind = "instruction") =>
        decoded = [some |-> TRUE, trade_type |-> sent.trade_type,
                   token_amount_requested |-> sent.amount,
                   sol_limit_specified |-> sent.limit]

\* A sell with one leading byte and two different values of eight bytes each has
\* been decoded.
C9_Witness ==
    /\ dec_pc = "done"
    /\ sent.kind = "instruction"
    /\ sent.trade_type = "Sell"
    /\ Len(sent.lead) = 1
    /\ sent.amount = U64_MAX
    /\ sent.limit = TwoTo63
    /\ decoded.some
    /\ tried = <<0, 1>>

Registered(window) == window \in {BUY_DISCRIMINATOR, SELL_DISCRIMINATOR}

\* Neither window of the data holds a registered discriminator.
Unrecognized ==
    \/ ~raw.ok
    \/ Len(raw.bytes) < 8
    \/ /\ ~Registered(SubSeq(raw.bytes, 1, 8))
       /\ Len(raw.bytes) >= 9 => ~Registered(SubSeq(raw.bytes, 2, 9))

\* C10: data shorter than 8 bytes, and data whose bytes [0..8) and (when there
\* are at least 9) bytes [1..9) are neither discriminator, give no decoded
\* instruction; the window at offset 1 is tried only after the window at
\* offset 0.
C10_DecoderRejection ==
    /\ (dec_pc = "done" /\ Unrecognized) => ~decoded.some
    /\ tried \in {<<>>, <<0>>, <<0, 1>>}

\* Data of at least 9 bytes with both windows tried and neither registered.
C10_Witness ==
    /\ dec_pc = "done"
    /\ raw.ok
    /\ Len(raw.bytes) >= 24
    /\ Unrecognized
    /\ tried = <<0, 1>>
    /\ ~decoded.some

\* Data shorter than 8 bytes have been rejected.
C10_WitnessShort ==
    /\ dec_pc = "done"
    /\ raw.ok
    /\ Len(raw.bytes) = 7
    /\ tried = <<>>
    /\ ~decoded.some

----------------------------------------------------------------------------
(* Further claims about the detector.                                      *)

\* A zero among the thresholds of the config, or a zero window.
ZeroThreshold ==
    \/ cfg.min_victim_abs_sol = Zero
    \/ cfg.min_victim_abs_token = Zero
    \/ cfg.min_profit_lamports = Pos(0)
    \/ cfg.min_bot_trades = 0

Degenerate == trades = <<>> \/ cfg.max_slot_gap = Zero \/ ZeroThreshold

\* Every leg is at its victim's slot.
LegsAtVictimSlot ==
    /\ \A k \in 1..Len(summary.front_runs) :
          \A i \in 1..Len(summary.front_runs[k].frontruns) :
              summary.front_runs[k].frontruns[i].slot = summary.front_runs[k].victim.slot
    /\ \A k \in 1..Len(summary.back_runs) :
          \A i \in 1..Len(summary.back_runs[k].backruns) :
              summary.back_runs[k].backruns[i].slot = summary.back_runs[k].victim.slot

\* What C11 says of the inputs it names, short of the absence of a panic.
DegenerateOutcome ==
    /\ (trades = <<>> /\ det_pc = "done") => summary = empty_summary
    /\ cfg.max_slot_gap = Zero => LegsAtVictimSlot

\* C11: for an empty batch, for max_slot_gap = 0 and for a zero magnitude
\* threshold, min_profit_lamports or min_bot_trades, detect_wide_attacks does
\* not panic; the summary of an empty batch is empty, and with max_slot_gap = 0
\* every leg is at its victim's slot.
C11_DegenerateInputs ==
    /\ Degenerate => det_pc # "panicked"
    /\ DegenerateOutcome

\* The same in the runs where no i64 operation left the type's range.
DegenerateInRange == det_overflow \/ C11_DegenerateInputs

\* Returned runs on the inputs C11 names: a zero window with a leg, and zero
\* thresholds with a sandwich.
DegenerateReturned ==
    /\ det_pc = "done"
    /\ \/ cfg.max_slot_gap = Zero /\ summary.front_runs # <<>>
       \/ ZeroThreshold /\ cfg.max_slot_gap # Zero /\ summary.sandwiches # <<>>

\* The pairs and triples of trades of the batch.
Pairs == (1..Len(trades)) \X (1..Len(trades))

SlotsOf(p) == <<trades[p[1]].slot, trades[p[2]].slot>>
SignaturesOf(p) == <<trades[p[1]].signature, trades[p[2]].signature>>
Before(p) == occurs_before(trades[p[1]], trades[p[2]])
After(p) == occurs_after(trades[p[1]], trades[p[2]])
Swap(p) == <<p[2], p[1]>>

\* What C12 says of one pair (a, b) of trades, and of each third trade.
OrderedPair(p) ==
    /\ Lt(SlotsOf(p)[1], SlotsOf(p)[2]) => Before(p)
    /\ SlotsOf(p)[1] = SlotsOf(p)[2] =>
          (Before(p) <=> StrLt(SignaturesOf(p)[1], SignaturesOf(p)[2]))
    /\ SignaturesOf(p)[1] # SignaturesOf(p)[2] => (Before(p) <=> ~After(p))
    /\ Before(p) <=> After(Swap(p))
    /\ p[1] = p[2] => ~Before(p) /\ ~After(p)
    /\ \A k \in 1..Len(trades) :
          Before(p) /\ Before(<<p[2], k>>) => Before(<<p[1], k>>)

\* C12: occurs_before is a strict total order on the trades of a batch: a lower
\* slot sorts before, equal slots sort by signature; for different signatures
\* exactly one of occurs_before(a, b) and occurs_after(a, b) holds,
\* occurs_before(a, b) iff occurs_after(b, a), neither holds for a trade
\* against itself, and the order is transitive.  The batch is the same in every
\* state of a run: the pairs are compared before the scan and after it.
C12_TotalOrder == det_pc # "scan" => \A p \in Pairs : OrderedPair(p)

\* A returned run on three trades where a pair of one slot is ordered by
\* signature against the batch order, a pair is ordered by slot against the
\* signatures, and a leg of the summary is at its victim's slot.
C12_Witness ==
    /\ det_pc = "done"
    /\ Len(trades) = 3
    /\ \E p \in Pairs :
          /\ p[1] < p[2]
          /\ SlotsOf(p)[1] = SlotsOf(p)[2]
          /\ After(p)
    /\ \E p \in Pairs :
          /\ Before(p)
          /\ StrLt(SignaturesOf(p)[2], SignaturesOf(p)[1])
    /\ \E k \in 1..Len(summary.front_runs) :
          \E i \in 1..Len(summary.front_runs[k].frontruns) :
              summary.front_runs[k].frontruns[i].slot = summary.front_runs[k].victim.slot

\* The trades of the batch that are victims: those with a breach and a magnitude
\* at a threshold, whatever surrounds them.
BatchVictims == {t \in {trades[i] : i \in 1..Len(trades)} : PassesFilters(t)}

SortsBefore(t, v) ==
    Lt(t.slot, v.slot) \/ (t.slot = v.slot /\ StrLt(t.signature, v.signature))

\* The front-run legs of v as C14 has them; the window [v.slot - gap, v.slot] in
\* unbounded integers.
FrontrunLegs(v) ==
    {t \in {trades[i] : i \in 1..Len(trades)} :
        /\ Le(v.slot, Add(t.slot, cfg.max_slot_gap))
        /\ Le(t.slot, v.slot)
        /\ t.signature # v.signature
        /\ t.mint = v.mint
        /\ TradesBy(t.signer) >= cfg.min_bot_trades
        /\ SortsBefore(t, v)
        /\ t.trade_type = v.trade_type}

\* The back-run legs of v as C15 has them; the window [v.slot, v.slot + gap] in
\* unbounded integers.
BackrunLegs(v) ==
    {t \in {trades[i] : i \in 1..Len(trades)} :
        /\ Le(v.slot, t.slot)
        /\ Le(t.slot, Add(v.slot, cfg.max_slot_gap))
        /\ t.signature # v.signature
        /\ t.mint = v.mint
        /\ TradesBy(t.signer) >= cfg.min_bot_trades
        /\ SortsBefore(v, t)
        /\ t.trade_type # v.trade_type}

\* The events of a sequence about victim v.
EventsOf(events, v) == {k \in 1..Len(events) : events[k].victim = v}

\* The legs an event sequence holds for v are the set, each once, and v has one
\* event when the set has a member and none when it is empty.
HoldsLegs(events, field, v, set) ==
    /\ Cardinality(EventsOf(events, v)) = (IF set = {} THEN 0 ELSE 1)
    /\ Len(LegsIn(events, field, v)) = Cardinality(set)
    /\ {LegsIn(events, field, v)[i] : i \in 1..Len(LegsIn(events, field, v))} = set

\* C14: in a returned summary, for every trade v of the batch that passes the
\* victim filters, the front-run legs of v are exactly the trades t of the batch
\* with t.slot in [v.slot - max_slot_gap (saturating at 0), v.slot], another
\* signature than v's, v's mint, a bot signer, sorting strictly before v, and
\* v's direction; v has a front-run event iff there is such a trade.
C14_FrontrunLegs ==
    det_pc = "done" =>
        \A v \in BatchVictims :
            HoldsLegs(summary.front_runs, "frontruns", v, FrontrunLegs(v))

\* A returned run where a victim has a front-run leg, another victim of the
\* batch has none, and a trade that meets every condition but one is no leg:
\* it is on another mint, or it sorts after the victim.
C14_Witness ==
    /\ det_pc = "done"
    /\ \E v \in BatchVictims : FrontrunLegs(v) = {}
    /\ \E k \in 1..Len(summary.front_runs), i \in 1..Len(trades) :
          /\ trades[i] \notin FrontrunLegs(summary.front_runs[k].victim)
          /\ trades[i].signature # summary.front_runs[k].victim.signature
          /\ TradesBy(trades[i].signer) >= cfg.min_bot_trades
          /\ trades[i].trade_type = summary.front_runs[k].victim.trade_type
          /\ Le(trades[i].slot, summary.front_runs[k].victim.slot)
          /\ \/ trades[i].mint # summary.front_runs[k].victim.mint
             \/ ~SortsBefore(trades[i], summary.front_runs[k].victim)

\* A returned run where the window's start saturates at zero and a victim has a
\* front-run leg of an earlier slot.
C14_WitnessSaturating ==
    /\ det_pc = "done"
    /\ cfg.max_slot_gap = U64_MAX
    /\ \E k \in 1..Len(summary.front_runs) :
          \E i \in 1..Len(summary.front_runs[k].frontruns) :
              Lt(summary.front_runs[k].frontruns[i].slot, summary.front_runs[k].victim.slot)

\* C15: in a returned summary, for every trade v of the batch that passes the
\* victim filters, the back-run legs of v are exactly the trades t of the batch
\* with t.slot in [v.slot, v.slot + max_slot_gap (saturating)], another signature
\* than v's, v's mint, a bot signer, sorting strictly after v, and the direction
\* opposite to v's; v has a back-run event iff there is such a trade, whether or
\* not v has a front-run event or a sandwich.
C15_BackrunLegs ==
    det_pc = "done" =>
        \A v \in BatchVictims :
            HoldsLegs(summary.back_runs, "backruns", v, BackrunLegs(v))

\* A returned run where a victim has a back-run event and neither a front-run
\* event nor a sandwich, and another victim has a back-run event and a front-run
\* event.
C15_Witness ==
    /\ det_pc = "done"
    /\ \E k \in 1..Len(summary.back_runs) :
          /\ EventsOf(summary.front_runs, summary.back_runs[k].victim) = {}
          /\ EventsOf(summary.sandwiches, summary.back_runs[k].victim) = {}
    /\ \E k \in 1..Len(summary.back_runs) :
          EventsOf(summary.front_runs, summary.back_runs[k].victim) # {}

\* A returned run where the window's end saturates at u64::MAX and a victim has
\* a back-run leg of a later slot.
C15_WitnessSaturating ==
    /\ det_pc = "done"
    /\ cfg.max_slot_gap = U64_MAX
    /\ \E k \in 1..Len(summary.back_runs) :
          \E i \in 1..Len(summary.back_runs[k].backruns) :
              Gt(summary.back_runs[k].backruns[i].slot, summary.back_runs[k].victim.slot)

----------------------------------------------------------------------------
(* Further claims about the simulator.                                     *)

\* currency_in - max(floor(currency_in * 30 / 10_000), 1), not below zero, in
\* unbounded integers.
AfterFee(amount) ==
    saturating_sub(amount, Max(Div(Mul(amount, N(FEE_BPS)), N(10000)), One))

\* floor(in * other / (own + in)) in unbounded integers.
Quote(in_after_fee, own_reserve, other_reserve) ==
    Div(Mul(in_after_fee, other_reserve), Add(own_reserve, in_after_fee))

\* What C13 says of one accepted buy.
AcceptedBuy(c) ==
    /\ c.out = Quote(AfterFee(c.arg), c.pre.virtual_sol, c.pre.virtual_token)
    /\ c.post.virtual_sol = Add(c.pre.virtual_sol, AfterFee(c.arg))
    /\ c.post.virtual_token = saturating_sub(c.pre.virtual_token, c.out)
    /\ c.post.real_sol = Add(c.pre.real_sol, c.arg)
    /\ c.post.real_token = saturating_sub(c.pre.real_token, c.out)

\* C13: a buy whose computed tokens_out is not below min_tokens_out (zero against
\* a minimum of zero included) returns floor(after_fee * virtual_token /
\* (virtual_sol + after_fee)) with after_fee = sol_in - max(floor(sol_in * 30 /
\* 10_000), 1); virtual_sol grows by after_fee, virtual_token shrinks by
\* tokens_out, real_sol grows by the whole sol_in and real_token shrinks by
\* tokens_out, saturating at zero.
C13_AcceptedBuy ==
    \A i \in 1..Len(calls) :
        calls[i].op = "buy" /\ Accepted(calls[i]) => AcceptedBuy(calls[i])

\* The same for the accepted buys that pay out at least one token and overflow
\* nowhere.
AcceptedBuyPaysOut ==
    \A i \in 1..Len(calls) :
        /\ calls[i].op = "buy"
        /\ Accepted(calls[i])
        /\ Gt(calls[i].out, Zero)
        /\ ~calls[i].overflow
        => AcceptedBuy(calls[i])

\* An accepted buy of one lamport: the fee takes it all, no token is paid out,
\* and the reserves do not record the lamport.
AcceptedBuyOfOne ==
    \E i \in 1..Len(calls) :
        /\ calls[i].op = "buy"
        /\ calls[i].arg = One
        /\ Accepted(calls[i])
        /\ calls[i].out = Zero
        /\ ~calls[i].overflow
        /\ calls[i].post = calls[i].pre

\* A u64 addition of the call overflowed: the `+=` of the two reserves the
\* input joins, made only for a trade that pays out.
AdditionOverflows(c) ==
    /\ Gt(slippage_limit(c.computed, c.min), Zero)
    /\ IF c.op = "buy"
       THEN \/ ~FitsU64(Add(c.pre.virtual_sol, c.after_fee))
            \/ ~FitsU64(Add(c.pre.real_sol, c.arg))
       ELSE \/ ~FitsU64(Add(c.pre.virtual_token, c.after_fee))
            \/ ~FitsU64(Add(c.pre.real_token, c.arg))

Product(s) == Mul(s.virtual_sol, s.virtual_token)

\* C18: over the calls of a run from genesis in which no u64 addition overflows,
\* virtual_sol * virtual_token after a call is not below what it was before the
\* call, and both virtual reserves stay above zero.
C18_ProductNeverDecreases ==
    (\A i \in 1..Len(calls) : ~AdditionOverflows(calls[i])) =>
        /\ Gt(amm.virtual_sol, Zero) /\ Gt(amm.virtual_token, Zero)
        /\ \A i \in 1..Len(calls) :
              /\ Ge(Product(calls[i].post), Product(calls[i].pre))
              /\ Gt(calls[i].post.virtual_sol, Zero)
              /\ Gt(calls[i].post.virtual_token, Zero)

\* A buy that pays out and then a sell that pays out, no addition overflowing,
\* the product growing with each.
C18_Witness ==
    /\ Len(calls) = 2
    /\ calls[1].op = "buy" /\ calls[2].op = "sell"
    /\ ~AdditionOverflows(calls[1]) /\ ~AdditionOverflows(calls[2])
    /\ Gt(calls[1].out, Zero) /\ Gt(calls[2].out, Zero)
    /\ Gt(Product(calls[1].post), Product(calls[1].pre))
    /\ Gt(Product(calls[2].post), Product(calls[2].pre))

\* The largest inputs that overflow no addition: a buy of u64::MAX at genesis in
\* a build without overflow checks, whose fee has wrapped.
C18_WitnessLargest ==
    /\ Len(calls) >= 1
    /\ calls[1].op = "buy" /\ calls[1].arg = U64_MAX
    /\ ~calls[1].panic
    /\ ~AdditionOverflows(calls[1])
    /\ Gt(calls[1].out, Zero)

----------------------------------------------------------------------------
(* Claims about the parser.                                                *)

IsStructured == transaction.encoding = "Json" /\ transaction.message_form = "Parsed"

\* The instructions of the transaction by position, <<0, i>> for the top-level
\* list and <<g, i>> for inner group g, and the order the claim scans them in.
InnerGroups ==
    IF transaction.meta.some
    THEN IF transaction.meta.inner_instructions.kind = "Some"
         THEN transaction.meta.inner_instructions.values
         ELSE <<>>
    ELSE <<>>

Positions ==
    {<<0, i>> : i \in 1..Len(transaction.instructions)}
    \cup UNION {{<<g, i>> : i \in 1..Len(InnerGroups[g].instructions)} :
                   g \in 1..Len(InnerGroups)}

InstructionAt(p) ==
    IF p[1] = 0 THEN transaction.instructions[p[2]]
    ELSE InnerGroups[p[1]].instructions[p[2]]

Earlier(p, q) == p[1] < q[1] \/ (p[1] = q[1] /\ p[2] < q[2])

Decodable == {p \in Positions : decode_pump_instruction(InstructionAt(p)).some}

\* The first of a set of positions, and the positions up to it (all of them, if
\* the set is empty).
First(ps) == CHOOSE p \in ps : \A q \in ps : q = p \/ Earlier(p, q)
UpToFirst(ps) == {p \in Positions : \A q \in ps : q = p \/ Earlier(p, q)}

\* The returned trade is the one the instruction at p decodes to.
TradeOf(p) ==
    /\ parsed.some
    /\ \E d \in {decode_pump_instruction(InstructionAt(p))} :
          /\ parsed.trade_type = d.trade_type
          /\ parsed.token_amount_requested = d.token_amount_requested
          /\ parsed.sol_limit_specified = d.sol_limit_specified

\* What C16 has parse_transaction return, given the positions that decode.
FirstTradeOrNone(ps) ==
    IF IsStructured /\ ps # {} THEN TradeOf(First(ps)) ELSE ~parsed.some

\* C16: parse_transaction returns the trade of the first top-level instruction
\* that decodes; if none does, the trade of the first instruction of the inner
\* groups that decodes, group by group and instruction by instruction; an
\* instruction that does not decode never stops the scan; the result is None
\* only when no instruction decodes or the message is not a parsed message of a
\* Json transaction.
C16_ScanOrder ==
    par_pc \in {"done", "panicked"} => \E ps \in {Decodable} : FirstTradeOrNone(ps)

\* The same where parse_transaction returned and the message has an account
\* key; and the scan then looked at the instructions in order, up to the first
\* that decodes and no further.
ScanOrderReturned ==
    par_pc = "done" /\ IsStructured /\ transaction.account_keys # <<>> =>
        \E ps \in {Decodable} :
            /\ FirstTradeOrNone(ps)
            /\ \A k \in 1..(Len(scanned) - 1) : Earlier(scanned[k], scanned[k + 1])
            /\ {scanned[k] : k \in 1..Len(scanned)} = UpToFirst(ps)

\* parse_transaction panicked, or returned None for a message without account
\* keys, although an instruction decodes.
ScanLost ==
    /\ IsStructured
    /\ Decodable # {}
    /\ \/ par_pc = "panicked"
       \/ par_pc = "done" /\ transaction.account_keys = <<>> /\ ~parsed.some

\* Returned trades of every place: the second top-level instruction behind one
\* that does not decode, and an instruction of the second inner group.
ScanReturned ==
    /\ par_pc = "done"
    /\ parsed.some
    /\ First(Decodable) \in {<<0, 2>>, <<2, 1>>, <<2, 2>>}
    /\ Len(scanned) >= 2

\* The token balances of a list that are the signer's, of the target mint.
RECURSIVE SumOfAmounts(_, _)
SumOfAmounts(balances, i) ==
    IF i > Len(balances) THEN I64(FALSE, Zero)
    ELSE SAdd(IF /\ balances[i].mint = TargetMint
                 /\ balances[i].owner = Owner(transaction.account_keys[1])
                 /\ parse_i128(balances[i].amount).ok
              THEN parse_i128(balances[i].amount).value
              ELSE I64(FALSE, Zero),
              SumOfAmounts(balances, i + 1))

BalancesOf(o) == IF o.kind = "Some" THEN o.values ELSE <<>>

ClampI64(v) ==
    IF ~v.neg /\ Ge(v.mag, TwoTo63) THEN I64_MAX
    ELSE IF v.neg /\ Gt(v.mag, TwoTo63) THEN I64_MIN
    ELSE v

\* The token delta as C17 has it: post minus pre, clamped; zero without a meta
\* and without entries.
TokenDelta ==
    IF transaction.meta.some
    THEN ClampI64(SSub(SumOfAmounts(BalancesOf(transaction.meta.post_token_balances), 1),
                       SumOfAmounts(BalancesOf(transaction.meta.pre_token_balances), 1)))
    ELSE I64(FALSE, Zero)

\* C17: for a decoded trade, parse_transaction returns the trade with the token
\* delta (sum of the post amounts) - (sum of the pre amounts) over the token
\* balances of the target mint owned by the signer, clamped to i64; the delta is
\* zero and the trade is still returned when neither list has such an entry or
\* there is no meta.
C17_TokenDelta ==
    par_pc \in {"done", "panicked"} /\ scan_hit.some =>
        parsed.some /\ parsed.token_change = TokenDelta

\* The same where parse_transaction returned.
TokenDeltaReturned ==
    par_pc = "done" /\ scan_hit.some =>
        parsed.some /\ parsed.token_change = TokenDelta

\* Returned trades with a delta summed over two entries, with a clamped delta,
\* and with no meta.
TokenDeltaSummed ==
    /\ par_pc = "done" /\ parsed.some
    /\ parsed.token_change = Neg(1900)

TokenDeltaClamped ==
    /\ par_pc = "done" /\ parsed.some
    /\ parsed.token_change = I64_MAX

TokenDeltaWithoutMeta ==
    /\ par_pc = "done" /\ parsed.some
    /\ ~transaction.meta.some

\* A buy of limit 2^63 without a meta, in a build with overflow checks: the
\* report subtracts the limit cast to i64 from zero and panics.
TradeLostWithoutMeta ==
    /\ par_pc = "panicked"
    /\ scan_hit.some /\ scan_hit.trade_type = "Buy"
    /\ scan_hit.sol_limit_specified = TwoTo63
    /\ ~transaction.meta.some

\* A sell whose token delta is i64::MIN, in a build with overflow checks: the
\* report negates the delta and panics.
TokenDeltaLost ==
    /\ par_pc = "panicked"
    /\ scan_hit.some /\ scan_hit.trade_type = "Sell"
    /\ TokenDelta = I64_MIN

====
